---- MODULE Spec2Model ----
(***************************************************************************)
(* Model of the Odnix secure transport of the odnix repository:            *)
(*   chat/odnix_security.py  OdnixSecurity (DH, AES-IGE, wrap/unwrap)      *)
(*   chat/consumers.py       CallConsumer and OdnixGatewayConsumer         *)
(*   scripts/test_call_handshake.py  the reference handshake client        *)
(*                                                                         *)
(* Byte strings are sequences over 0..255.  Python's None is the value     *)
(* None below.  The two library primitives the code calls but does not     *)
(* define are modelled by stand-ins with the algebraic properties the      *)
(* code relies on: hashlib.sha256 by a 32-byte digest that is a fixed      *)
(* function of its input, AES-256-ECB by a keyed permutation of 16-byte    *)
(* blocks.  The 952-bit DH modulus is scaled down to ModelModulus.         *)
(***************************************************************************)
EXTENDS Integers, Sequences, FiniteSets, TLC

\* ------------------------------------------------------------------------
\* Bounds of the model
\* ------------------------------------------------------------------------

\* stand-in for the 952-bit modulus DH_PRIME (odnix_security.py:14)
ModelModulus == 7919

\* largest private exponent drawn in the handshake-only specification
MaxExp == 7

\* longest byte string given to the cipher and to the frame decoders
MaxLen == 41

\* ------------------------------------------------------------------------
\* Program constants
\* ------------------------------------------------------------------------

DH_PRIME == ModelModulus

DH_G == 3

\* AES.block_size
block_size == 16

\* auth_key_id(8) + msg_key(16): the length check of unwrap_message
MinPacketLen == 24

\* salt(8) + session(8) + time(8): the inner header unwrap_message skips
InnerHeaderLen == 24

None == <<-1>>

\* Python truthiness of a bytes-or-None value: `not x`
Falsy(x) == x = None \/ x = << >>

\* ------------------------------------------------------------------------
\* Byte-string helpers
\* ------------------------------------------------------------------------

\* data[a:b] of Python, 0-based, for 0 <= a
Slice(s, a, b) ==
  IF b <= a \/ a >= Len(s) THEN << >>
  ELSE SubSeq(s, a + 1, IF b > Len(s) THEN Len(s) ELSE b)

\* data[a:]
SliceFrom(s, a) == Slice(s, a, Len(s))

\* bytes([v] * n)
Repeat(v, n) == [i \in 1..n |-> v]

RECURSIVE XorBits(_, _, _)
XorBits(a, b, n) ==
  IF n = 0 THEN 0
  ELSE ((a + b) % 2) + 2 * XorBits(a \div 2, b \div 2, n - 1)

\* a ^ b on 4-bit values, tabulated once
XorNibble == [a \in 0..15 |-> [b \in 0..15 |-> XorBits(a, b, 4)]]

\* a ^ b on bytes
XorByte(a, b) == XorNibble[a \div 16][b \div 16] * 16 + XorNibble[a % 16][b % 16]

\* bytes(a ^ b for a, b in zip(x, y)): zip stops at the shorter one
XorBlock(x, y) ==
  [i \in 1..(IF Len(x) < Len(y) THEN Len(x) ELSE Len(y)) |-> XorByte(x[i], y[i])]

\* struct.pack('<Q', n): 8 bytes, little endian
RECURSIVE PackLE(_, _)
PackLE(n, width) ==
  IF width = 0 THEN << >> ELSE <<n % 256>> \o PackLE(n \div 256, width - 1)

write_long(n) == PackLE(n, 8)

\* ------------------------------------------------------------------------
\* Library primitives (stand-ins)
\* ------------------------------------------------------------------------

\* sum over positions a..b of (byte + 1) * weight(position), modulo 65521,
\* by halving (the recursion depth stays logarithmic)
RECURSIVE HashSum(_, _, _)
HashSum(s, a, b) ==
  IF a > b THEN 0
  ELSE IF a = b THEN ((s[a] + 1) * (((a * a * 7 + a * 13 + 1) % 251) + 1)) % 65521
  ELSE LET mid == (a + b) \div 2
       IN  (HashSum(s, a, mid) + HashSum(s, mid + 1, b)) % 65521

HashAcc(s, seed) == (HashSum(s, 1, Len(s)) + seed * 257 + Len(s) * 4099) % 65521

\* hashlib.sha256(x).digest(): 32 bytes, a fixed function of x.  The first two
\* bytes carry the whole accumulator, so digests and their 16-byte prefixes
\* differ whenever the accumulators do.
sha256(x) ==
  LET a == HashAcc(x, 7)
  IN  [i \in 1..32 |-> IF i = 1 THEN a % 256
                       ELSE IF i = 2 THEN a \div 256
                       ELSE (a * i + i * i + (a \div 256)) % 256]

\* hashlib.sha1(x).digest(): 20 bytes
sha1(x) ==
  LET a == HashAcc(x, 11)
  IN  [i \in 1..20 |-> IF i = 19 THEN a % 256
                       ELSE IF i = 20 THEN a \div 256
                       ELSE (a * i + 3 * i + (a \div 256)) % 256]

\* AES.new(key, AES.MODE_ECB).encrypt(block) on one 16-byte block: a
\* permutation of the blocks for every 32-byte key (rotate, then add the key)
AesEncBlock(key, blk) ==
  [i \in 1..16 |-> (blk[(i % 16) + 1] + key[i] + key[i + 16]) % 256]

\* AES.new(key, AES.MODE_ECB).decrypt(block): the inverse permutation
AesDecBlock(key, blk) ==
  [j \in 1..16 |->
     LET i == ((j + 14) % 16) + 1
     IN  (blk[i] + 512 - key[i] - key[i + 16]) % 256]

\* number.long_to_bytes(n): big endian, no leading zero bytes, b'\x00' for 0
RECURSIVE BigEndian(_)
BigEndian(n) == IF n = 0 THEN << >> ELSE BigEndian(n \div 256) \o <<n % 256>>

\* a little-endian encoding of the shared secret
RECURSIVE LittleEndian(_)
LittleEndian(n) == IF n = 0 THEN << >> ELSE <<n % 256>> \o LittleEndian(n \div 256)

long_to_bytes_le(n) == IF n = 0 THEN <<0>> ELSE LittleEndian(n)

long_to_bytes(n) == IF n = 0 THEN <<0>> ELSE BigEndian(n)

\* n.to_bytes((n.bit_length() + 7) // 8, 'big') of the reference client:
\* big endian, no leading zero bytes, b'' for 0
int_to_bytes(n) == BigEndian(n)

\* pow(base, e, m)
RECURSIVE pow(_, _, _)
pow(base, e, m) ==
  IF e = 0 THEN 1 % m
  ELSE LET h == pow(base, e \div 2, m)
           sq == (h * h) % m
       IN  IF e % 2 = 1 THEN (sq * (base % m)) % m ELSE sq

\* ------------------------------------------------------------------------
\* OdnixSecurity: AES-256 IGE
\* ------------------------------------------------------------------------

\* a padding that leaves whole blocks alone
pkcs7_pad_short(data) ==
  IF Len(data) % block_size = 0 THEN data
  ELSE data \o Repeat(block_size - (Len(data) % block_size),
                      block_size - (Len(data) % block_size))

\* the PKCS7 padding of aes_ige_encrypt: always 1..16 bytes
pkcs7_pad(data) ==
  LET pad_len == block_size - (Len(data) % block_size)
  IN  data \o Repeat(pad_len, pad_len)

\* the block loop of aes_ige_encrypt; iv_1 is c_prev, iv_2 is m_prev
RECURSIVE ige_encrypt_loop(_, _, _, _, _)
ige_encrypt_loop(data, key, i, iv_1, iv_2) ==
  IF i >= Len(data) THEN << >>
  ELSE LET plaintext_block == Slice(data, i, i + block_size)
           input_block     == XorBlock(plaintext_block, iv_1)
           encrypted_block == AesEncBlock(key, input_block)
           cipher_block    == XorBlock(encrypted_block, iv_2)
       IN  cipher_block
             \o ige_encrypt_loop(data, key, i + block_size, cipher_block, plaintext_block)

\* an encryption that takes the last 16 bytes of the IV as c_prev and the
\* first 16 as m_prev
aes_ige_encrypt_swapped(data, key, iv) ==
  ige_encrypt_loop(pkcs7_pad(data), key, 0,
                   SliceFrom(iv, block_size), Slice(iv, 0, block_size))

aes_ige_encrypt(data, key, iv) ==
  ige_encrypt_loop(pkcs7_pad(data), key, 0,
                   Slice(iv, 0, block_size), SliceFrom(iv, block_size))

\* the block loop of aes_ige_decrypt.  cipher.decrypt raises ValueError on a
\* block that is not 16 bytes long; the result is [exc, data].
RECURSIVE ige_decrypt_loop(_, _, _, _, _)
ige_decrypt_loop(data, key, i, iv_1, iv_2) ==
  IF i >= Len(data) THEN [exc |-> "none", data |-> << >>]
  ELSE LET ciphertext_block == Slice(data, i, i + block_size)
           input_block      == XorBlock(ciphertext_block, iv_2)
       IN  IF Len(input_block) # block_size
           THEN [exc |-> "ValueError", data |-> << >>]
           ELSE LET decrypted_block == AesDecBlock(key, input_block)
                    plain_block     == XorBlock(decrypted_block, iv_1)
                    rest == ige_decrypt_loop(data, key, i + block_size,
                                             ciphertext_block, plain_block)
                IN  IF rest.exc # "none" THEN rest
                    ELSE [exc |-> "none", data |-> plain_block \o rest.data]

\* an unpadding that strips nothing
ige_unpad_keep(plaintext) == [exc |-> "none", data |-> plaintext]

\* the unpadding of aes_ige_decrypt: plaintext[-1] raises IndexError on b'';
\* a pad byte outside 1..16 returns the plaintext as it is
ige_unpad(plaintext) ==
  IF Len(plaintext) = 0 THEN [exc |-> "IndexError", data |-> << >>]
  ELSE LET pad_len == plaintext[Len(plaintext)]
       IN  IF pad_len < 1 \/ pad_len > block_size
           THEN [exc |-> "none", data |-> plaintext]
           ELSE [exc |-> "none", data |-> Slice(plaintext, 0, Len(plaintext) - pad_len)]

aes_ige_decrypt(data, key, iv) ==
  LET r == ige_decrypt_loop(data, key, 0,
                            Slice(iv, 0, block_size), SliceFrom(iv, block_size))
  IN  IF r.exc # "none" THEN r ELSE ige_unpad(r.data)

\* ------------------------------------------------------------------------
\* base64 and json, as wrap_message and unwrap_message use them
\* ------------------------------------------------------------------------

\* A base64 text is a sequence of characters: 0..63 the alphabet (by value),
\* B64Pad the character '=', B64Other a character outside the alphabet.
B64Pad == 64

B64Other == 65

\* base64.b64encode(data): every 3 bytes give 4 characters, a last group of
\* 1 or 2 bytes is completed with '='
b64encode(d) ==
  LET n == Len(d)
      byte(k) == IF k <= n THEN d[k] ELSE 0
      ch(k) ==
        LET g  == (k - 1) \div 4
            r  == (k - 1) % 4
            b0 == byte(3 * g + 1)
            b1 == byte(3 * g + 2)
            b2 == byte(3 * g + 3)
        IN  IF r = 0 THEN b0 \div 4
            ELSE IF r = 1 THEN (b0 % 4) * 16 + b1 \div 16
            ELSE IF r = 2 THEN (IF 3 * g + 2 > n THEN B64Pad
                                ELSE (b1 % 16) * 4 + b2 \div 64)
            ELSE (IF 3 * g + 3 > n THEN B64Pad ELSE b2 % 64)
  IN  [k \in 1..(4 * ((n + 2) \div 3)) |-> ch(k)]

B64IsData(c) == c < B64Pad

B64InAlphabetOrPad(c) == c <= B64Pad

\* base64.b64decode(text) (not validating), as binascii.a2b_base64 scans it:
\* characters outside the alphabet are skipped; an '=' counts only when two
\* or three characters of the current group were read, and the scan stops
\* at the '=' that completes the group; a data character resets the count;
\* input that ends inside a group raises binascii.Error.  Result [exc, data].
b64decode(text) ==
  LET t == SelectSeq(text, B64InAlphabetOrPad)
      quad_pos(i) == Len(SelectSeq(SubSeq(t, 1, i - 1), B64IsData)) % 4
      stops(i) == /\ t[i] = B64Pad
                  /\ \/ quad_pos(i) = 3
                     \/ quad_pos(i) = 2 /\ i >= 2 /\ t[i - 1] = B64Pad
      stopAt == {i \in 1..Len(t) : stops(i)}
      read == IF stopAt = {} THEN t
              ELSE SubSeq(t, 1, (CHOOSE i \in stopAt : \A j \in stopAt : i <= j) - 1)
      d == SelectSeq(read, B64IsData)
      n == Len(d)
      nbytes == (n \div 4) * 3 + (IF n % 4 = 2 THEN 1 ELSE IF n % 4 = 3 THEN 2 ELSE 0)
      out(j) ==
        LET g == (j - 1) \div 3
            r == (j - 1) % 3
        IN  IF r = 0 THEN d[4 * g + 1] * 4 + d[4 * g + 2] \div 16
            ELSE IF r = 1 THEN (d[4 * g + 2] % 16) * 16 + d[4 * g + 3] \div 4
            ELSE (d[4 * g + 3] % 4) * 64 + d[4 * g + 4]
  IN  IF stopAt = {} /\ n % 4 # 0
      THEN [exc |-> "binascii.Error", data |-> << >>]
      ELSE [exc |-> "none", data |-> [j \in 1..nbytes |-> out(j)]]

\* The application payloads of the model, named by what they are in Python:
\*   "ping"  {"type": "ping"}     "offer" {"type": "webrtc.offer"}
\*   "empty" {}                   (a dict that is falsy)
\* and "forward", what signal_forward builds of an offer of user 1:
\*   {"type": "webrtc.offer", "from_user_id": 1, "payload": {}}
Payloads == {"ping", "offer", "empty"}

\* json.dumps(payload).encode('utf-8')
json_dumps(p) ==
  CASE p = "ping"  -> <<123, 34, 116, 121, 112, 101, 34, 58, 32, 34, 112, 105, 110, 103, 34, 125>>
    [] p = "offer" -> <<123, 34, 116, 121, 112, 101, 34, 58, 32, 34, 119, 101, 98, 114, 116, 99, 46, 111, 102, 102, 101, 114, 34, 125>>
    [] p = "empty" -> <<123, 125>>
    [] p = "forward" -> <<123, 34, 116, 121, 112, 101, 34, 58, 32, 34, 119, 101, 98, 114, 116, 99, 46, 111, 102, 102, 101, 114, 34, 44, 32, 34, 102, 114, 111, 109, 95, 117, 115, 101, 114, 95, 105, 100, 34, 58, 32, 49, 44, 32, 34, 112, 97, 121, 108, 111, 97, 100, 34, 58, 32, 123, 125, 125>>

\* json.loads(payload_bytes.decode('utf-8')): the payload, or a raise
json_loads(bytes) ==
  IF \E p \in Payloads : json_dumps(p) = bytes
  THEN [exc |-> "none", value |-> CHOOSE p \in Payloads : json_dumps(p) = bytes]
  ELSE [exc |-> "ValueError", value |-> "None"]

\* payload.get('type')
PayloadType(p) ==
  CASE p = "ping"  -> "ping"
    [] p = "offer" -> "webrtc.offer"
    [] OTHER       -> "None"

\* Python truthiness of what unwrap_message returns
Truthy(v) == v # "None" /\ v # "empty"

\* ------------------------------------------------------------------------
\* OdnixSecurity: the session object and wrap / unwrap
\* ------------------------------------------------------------------------

\* OdnixSecurity.__init__: auth_key and server_nonce start as None, session_id
\* and salt are 8 random bytes each (drawn by the caller of this operator)
OdnixSecurity(session_id, salt) ==
  [auth_key |-> None, session_id |-> session_id, salt |-> salt, server_nonce |-> None]

\* a wrapping whose message key is taken over the payload alone
wrap_packet_payload_key(self, json_payload, now) ==
  LET payload_bytes == json_dumps(json_payload)
      inner_data == self.salt \o self.session_id \o write_long(now) \o payload_bytes
      msg_key == Slice(sha256(self.auth_key \o payload_bytes), 0, 16)
      aes_key == sha256(msg_key \o self.auth_key)
      aes_iv  == sha256(self.auth_key \o msg_key)
      encrypted_data == aes_ige_encrypt(inner_data, aes_key, aes_iv)
      auth_key_id == SliceFrom(sha1(self.auth_key), 12)
  IN  [exc |-> "none", text |-> b64encode(auth_key_id \o msg_key \o encrypted_data)]

\* wrap_message(json_payload) at clock reading now (milliseconds).  The
\* result is [exc, text]: the exception raised ("none" if none) and the
\* base64 text returned.  The session is not assigned to.  wrap_packet is
\* the body after the guard (lines 146-173).
wrap_packet(self, json_payload, now) ==
  LET payload_bytes == json_dumps(json_payload)
      inner_data == self.salt \o self.session_id \o write_long(now) \o payload_bytes
      msg_key == Slice(sha256(self.auth_key \o inner_data), 0, 16)
      aes_key == sha256(msg_key \o self.auth_key)
      aes_iv  == sha256(self.auth_key \o msg_key)
      encrypted_data == aes_ige_encrypt(inner_data, aes_key, aes_iv)
      auth_key_id == SliceFrom(sha1(self.auth_key), 12)
      final_packet == auth_key_id \o msg_key \o encrypted_data
  IN  [exc |-> "none", text |-> b64encode(final_packet)]

\* wrap_message without its guard on auth_key
wrap_message_unguarded(self, json_payload, now) == wrap_packet(self, json_payload, now)

wrap_message(self, json_payload, now) ==
  IF Falsy(self.auth_key)
  THEN [exc |-> "NoAuthKey", text |-> << >>]
  ELSE wrap_packet(self, json_payload, now)

\* an unwrap_message that accepts a frame only when the session_id inside it
\* is the session's own
unwrap_message_own_session(self, b64_packet) ==
  IF Falsy(self.auth_key)
  THEN [exc |-> "NoAuthKey", value |-> "None"]
  ELSE LET dec == b64decode(b64_packet)
           packet == dec.data
       IN  IF dec.exc # "none" THEN [exc |-> "none", value |-> "None"]
           ELSE IF Len(packet) < MinPacketLen THEN [exc |-> "none", value |-> "None"]
           ELSE LET msg_key == Slice(packet, 8, 24)
                    encrypted_data == SliceFrom(packet, 24)
                    aes_key == sha256(msg_key \o self.auth_key)
                    aes_iv  == sha256(self.auth_key \o msg_key)
                    decrypted == aes_ige_decrypt(encrypted_data, aes_key, aes_iv)
                IN  IF decrypted.exc # "none"
                    THEN [exc |-> decrypted.exc, value |-> "None"]
                    ELSE IF Len(decrypted.data) < InnerHeaderLen
                    THEN [exc |-> "none", value |-> "None"]
                    ELSE IF Slice(decrypted.data, 8, 16) # self.session_id
                    THEN [exc |-> "none", value |-> "None"]
                    ELSE LET parsed == json_loads(SliceFrom(decrypted.data, InnerHeaderLen))
                         IN  IF parsed.exc # "none"
                             THEN [exc |-> "none", value |-> "None"]
                             ELSE [exc |-> "none", value |-> parsed.value]

\* unwrap_message(b64_packet).  The result is [exc, value]: the exception
\* raised ("none" if none) and the value returned, "None" for Python's None.
\* The session is not assigned to.
unwrap_message(self, b64_packet) ==
  IF Falsy(self.auth_key)
  THEN [exc |-> "NoAuthKey", value |-> "None"]
  ELSE LET dec == b64decode(b64_packet)
           packet == dec.data
       IN  IF dec.exc # "none" THEN [exc |-> "none", value |-> "None"]
           ELSE IF Len(packet) < MinPacketLen THEN [exc |-> "none", value |-> "None"]
           ELSE LET msg_key == Slice(packet, 8, 24)
                    encrypted_data == SliceFrom(packet, 24)
                    aes_key == sha256(msg_key \o self.auth_key)
                    aes_iv  == sha256(self.auth_key \o msg_key)
                    decrypted == aes_ige_decrypt(encrypted_data, aes_key, aes_iv)
                IN  IF decrypted.exc # "none"
                    THEN [exc |-> decrypted.exc, value |-> "None"]
                    ELSE IF Len(decrypted.data) < InnerHeaderLen
                    THEN [exc |-> "none", value |-> "None"]
                    ELSE LET parsed == json_loads(SliceFrom(decrypted.data, InnerHeaderLen))
                         IN  IF parsed.exc # "none"
                             THEN [exc |-> "none", value |-> "None"]
                             ELSE [exc |-> "none", value |-> parsed.value]

\* ------------------------------------------------------------------------
\* Hexadecimal text of the handshake ('gb' and 'ga')
\* ------------------------------------------------------------------------

\* A hex text is a sequence of characters: 0..15 the hex digits (by value),
\* HexOther a character that is no hex digit.
HexOther == 16

\* hex(n)[2:] and format(n, 'x'): no leading zeros, "0" for 0
RECURSIVE HexDigits(_)
HexDigits(n) == IF n = 0 THEN << >> ELSE HexDigits(n \div 16) \o <<n % 16>>

format_hex(n) == IF n = 0 THEN <<0>> ELSE HexDigits(n)

RECURSIVE HexValue(_, _, _)
HexValue(t, i, acc) ==
  IF i > Len(t) THEN acc ELSE HexValue(t, i + 1, acc * 16 + t[i])

\* int(text, 16): [exc, value]; ValueError on the empty text and on a text
\* with a character that is no hex digit
\* a conversion that accepts every text
int16_lenient(t) == [exc |-> "none", value |-> 0]

int16(t) ==
  IF Len(t) = 0 \/ \E i \in 1..Len(t) : t[i] >= HexOther
  THEN [exc |-> "ValueError", value |-> 0]
  ELSE [exc |-> "none", value |-> HexValue(t, 1, 0)]

\* ------------------------------------------------------------------------
\* Connections
\* ------------------------------------------------------------------------

\* the call sockets (CallConsumer) and the gateway sockets (OdnixGatewayConsumer)
CallConns == {"c1", "c2"}

GwConns == {"g1"}

Conns == CallConns \cup GwConns

\* the requests that consume the one-time message: two through the HTTP
\* view, two through the message.consume event of the chat socket
HttpRequests == {"h1", "h2"}

WsRequests == {"w1", "w2"}

Requests == HttpRequests \cup WsRequests

VARIABLES
  conn,    \* per connection: its consumer object (see NewConsumer)
  last,    \* the handler that ran last: its connection, input, replies, outcome
  client,  \* the reference handshake client of each call socket
  message, \* the row of the one-time message in the database
  request  \* per consume request: where it is in its code and what it holds

vars == <<conn, last, client, message, request>>

\* a NULL consumed_at; the readings of timezone.now() are 1, 2, ...
Null == 0

\* the row of Message.objects.create(..., one_time=True)
NewMessage == [one_time |-> TRUE, consumed_at |-> Null, content |-> "Secret message"]

\* a request that has not started: pc is where it is, row the Message object
\* it has loaded, success and content what it answers, event whether it has
\* sent message_consumed to the group, consumed_at the time it has written
NewRequest ==
  [pc |-> "start", row |-> NewMessage, success |-> FALSE, content |-> "None",
   event |-> FALSE, consumed_at |-> Null]

\* What the random sources of the code can return, cut down to a few values:
\* get_random_bytes(16) for server_nonce, get_random_bytes(8) twice for
\* (session_id, salt), number.getRandomRange(1, prime - 1) for server_priv.
ServerNonces == {Repeat(33, 16), Repeat(34, 16)}

\* The (session_id, salt) pairs get_random_bytes(8) gives on each endpoint: one
\* pair per endpoint, no two endpoints the same
ConnIds(c) ==
  IF c = "c1" THEN {<<Repeat(1, 8), Repeat(2, 8)>>}
  ELSE IF c = "c2" THEN {<<Repeat(11, 8), Repeat(12, 8)>>}
  ELSE {<<Repeat(21, 8), Repeat(22, 8)>>}

ServerPrivs == {2, 5}

\* the nonce a client sends (16 values in 0..255)
ClientNonce == Repeat(17, 16)

\* a private exponent of the client and the public value it sends
ClientPriv == 7

ClientPub == pow(DH_G, ClientPriv, DH_PRIME)

\* int(time.time() * 1000) as wrap_message reads it (two readings, kept
\* below 2^31)
Clock == {1700000000, 1700000001}

\* The consumer object of a connection.  CallConsumer.connect sets proto and
\* handshake_complete; OdnixGatewayConsumer.connect sets auth_key and
\* proto_security (field proto here).  A field the class does not have keeps
\* its initial value.  open is the state of the transport.
NewConsumer(ids) ==
  [open |-> TRUE,
   proto |-> OdnixSecurity(ids[1], ids[2]),
   handshake_complete |-> FALSE,
   auth_key |-> None]

\* The session key of a connection, whichever class owns it
AuthKeyOf(c, self) == IF c \in GwConns THEN self.auth_key ELSE self.proto.auth_key

\* The handshake stage of a connection, read off the fields the code keeps:
\* ESTABLISHED once the class's own completion test holds, otherwise
\* AWAITING_CLIENT_PUBLIC once a server nonce was issued, otherwise INIT.
Established(c, self) ==
  IF c \in GwConns THEN ~Falsy(self.auth_key) ELSE self.handshake_complete

Stage(c, self) ==
  IF Established(c, self) THEN "ESTABLISHED"
  ELSE IF self.proto.server_nonce # None THEN "AWAITING_CLIENT_PUBLIC"
  ELSE "INIT"

\* ------------------------------------------------------------------------
\* Messages
\* ------------------------------------------------------------------------

\* What a socket receives.  kind is "text" (text_data) or "bytes"
\* (bytes_data).  For a text, is_json says whether json.loads accepts it,
\* is_dict whether it is a JSON object, and type, nonce, server_nonce and gb
\* are data.get(...) of the object (None when the key is missing); text is
\* the text itself where the code reads it as base64; bytes is bytes_data.
Msg(label, kind, is_json, is_dict, type, nonce, server_nonce, gb, text, bytes) ==
  [label |-> label, kind |-> kind, is_json |-> is_json, is_dict |-> is_dict,
   type |-> type, nonce |-> nonce, server_nonce |-> server_nonce, gb |-> gb,
   text |-> text, bytes |-> bytes]

JsonMsg(label, type, nonce, server_nonce, gb) ==
  Msg(label, "text", TRUE, TRUE, type, nonce, server_nonce, gb, <<B64Other>>, << >>)

TextMsg(label, text) ==
  Msg(label, "text", FALSE, FALSE, "None", None, None, None, text, << >>)

BytesMsg(label, bytes) ==
  Msg(label, "bytes", FALSE, FALSE, "None", None, None, None, << >>, bytes)

\* What a handler sends back.  A JSON reply has a type and the fields of the
\* reply; the binary reply of the gateway is in bytes.
Reply(type, nonce, server_nonce, p, g, ga, bytes) ==
  [type |-> type, nonce |-> nonce, server_nonce |-> server_nonce,
   p |-> p, g |-> g, ga |-> ga, bytes |-> bytes]

\* What a handler did: the consumer afterwards, the replies sent in order,
\* the payload handed to the application ("None" if none), and whether the
\* handler closed the connection.
Outcome(self, sent, dispatched, closed) ==
  [self |-> self, sent |-> sent, dispatched |-> dispatched, closed |-> closed]

\* ------------------------------------------------------------------------
\* OdnixSecurity.create_dh_config
\* ------------------------------------------------------------------------

\* create_dh_config() with get_random_bytes(16) returning rnd: the session
\* afterwards and the configuration returned
create_dh_config(proto, rnd) ==
  [proto |-> [proto EXCEPT !.server_nonce = rnd],
   config |-> [prime |-> DH_PRIME, g |-> DH_G, server_nonce |-> rnd]]

\* ------------------------------------------------------------------------
\* CallConsumer
\* ------------------------------------------------------------------------

\* a req_dh_params branch that starts the session over: it drops the key
\* and the flag
call_req_dh_params_restart(self, data, nonce_rnd) ==
  Outcome([self EXCEPT !.proto = [create_dh_config(self.proto, nonce_rnd).proto
                                    EXCEPT !.auth_key = None],
                       !.handshake_complete = FALSE],
          <<Reply("res_dh_params", data.nonce, nonce_rnd, DH_PRIME, DH_G, None, << >>)>>,
          "None", FALSE)

\* the req_dh_params branch of CallConsumer.receive
call_req_dh_params(self, data, nonce_rnd) ==
  LET client_nonce == IF Falsy(data.nonce) THEN << >> ELSE data.nonce
      dh == create_dh_config(self.proto, nonce_rnd)
      response == Reply("res_dh_params", client_nonce, dh.config.server_nonce,
                        dh.config.prime, dh.config.g, None, << >>)
  IN  Outcome([self EXCEPT !.proto = dh.proto], <<response>>, "None", FALSE)

\* a set_client_dh_params branch that stores the key and answers dh_gen_ok
\* without marking the handshake complete
call_set_client_dh_params_no_flag(self, data, server_priv) ==
  IF Falsy(data.gb) \/ int16(data.gb).exc # "none"
  THEN Outcome(self, <<Reply("error", None, None, 0, 0, None, << >>)>>, "None", FALSE)
  ELSE Outcome([self EXCEPT !.proto.auth_key =
                  sha256(long_to_bytes(pow(int16(data.gb).value, server_priv, DH_PRIME)))],
               <<Reply("dh_gen_ok", data.nonce, data.server_nonce, 0, 0,
                       format_hex(pow(DH_G, server_priv, DH_PRIME)), << >>)>>,
               "None", FALSE)

\* the set_client_dh_params branch of CallConsumer.receive, with
\* number.getRandomRange(1, prime - 1) returning server_priv
call_set_client_dh_params(self, data, server_priv) ==
  LET client_pub_hex == data.gb
      error == Reply("error", None, None, 0, 0, None, << >>)
  IN  IF Falsy(client_pub_hex)
      THEN Outcome(self, <<error>>, "None", FALSE)
      ELSE LET server_pub == pow(DH_G, server_priv, DH_PRIME)
               client_pub == int16(client_pub_hex)
           IN  IF client_pub.exc # "none"
               THEN Outcome(self, <<error>>, "None", FALSE)
               ELSE LET shared_secret == pow(client_pub.value, server_priv, DH_PRIME)
                        secret_bytes  == long_to_bytes(shared_secret)
                        response == Reply("dh_gen_ok", data.nonce, data.server_nonce,
                                          0, 0, format_hex(server_pub), << >>)
                    IN  Outcome([self EXCEPT !.proto.auth_key = sha256(secret_bytes),
                                             !.handshake_complete = TRUE],
                                <<response>>, "None", FALSE)

\* an encrypted-message branch that answers with an error while the
\* handshake is not complete
call_encrypted_reply(self, text_data) ==
  IF self.handshake_complete /\ ~Falsy(self.proto.auth_key)
  THEN LET decrypted == unwrap_message(self.proto, text_data)
       IN  IF decrypted.exc = "none" /\ Truthy(decrypted.value)
           THEN Outcome(self, << >>, decrypted.value, FALSE)
           ELSE Outcome(self, << >>, "None", FALSE)
  ELSE Outcome(self, <<Reply("error", None, None, 0, 0, None, << >>)>>, "None", FALSE)

\* the encrypted-message branch of CallConsumer.receive: every exception of
\* unwrap_message is caught and logged, a falsy result is logged, a truthy
\* one goes to handle_decrypted_signal
call_encrypted(self, text_data) ==
  IF self.handshake_complete /\ ~Falsy(self.proto.auth_key)
  THEN LET decrypted == unwrap_message(self.proto, text_data)
       IN  IF decrypted.exc = "none" /\ Truthy(decrypted.value)
           THEN Outcome(self, << >>, decrypted.value, FALSE)
           ELSE Outcome(self, << >>, "None", FALSE)
  ELSE Outcome(self, << >>, "None", FALSE)

\* a send_signal that sends the signal as JSON text when the handshake is
\* not complete
send_signal_plain(self, channel_name, event, now) ==
  IF event.original_sender_channel = channel_name
  THEN Outcome(self, << >>, "None", FALSE)
  ELSE IF self.handshake_complete /\ ~Falsy(self.proto.auth_key)
  THEN Outcome(self, <<Reply("text", None, None, 0, 0, None,
                             wrap_message(self.proto, event.message, now).text)>>,
               "None", FALSE)
  ELSE Outcome(self, <<Reply("text", None, None, 0, 0, None, json_dumps(event.message))>>,
               "None", FALSE)

\* CallConsumer.send_signal(event) on the consumer whose channel is
\* channel_name, at clock reading now: what it sends is in the bytes of a
\* reply of type "text".  Every exception of wrap_message is caught.
send_signal(self, channel_name, event, now) ==
  IF event.original_sender_channel = channel_name
  THEN Outcome(self, << >>, "None", FALSE)
  ELSE IF self.handshake_complete /\ ~Falsy(self.proto.auth_key)
  THEN IF wrap_message(self.proto, event.message, now).exc # "none"
       THEN Outcome(self, << >>, "None", FALSE)
       ELSE Outcome(self, <<Reply("text", None, None, 0, 0, None,
                                  wrap_message(self.proto, event.message, now).text)>>,
                    "None", FALSE)
  ELSE Outcome(self, << >>, "None", FALSE)

\* CallConsumer.send_encrypted(data): an exception of wrap_message leaves
\* the handler before anything is sent
send_encrypted(self, data, now) ==
  IF self.handshake_complete
  THEN IF wrap_message(self.proto, data, now).exc # "none"
       THEN Outcome(self, << >>, "None", FALSE)
       ELSE Outcome(self, <<Reply("text", None, None, 0, 0, None,
                                  wrap_message(self.proto, data, now).text)>>,
                    "None", FALSE)
  ELSE Outcome(self, << >>, "None", FALSE)

\* CallConsumer.signal_forward(event) on the consumer of user user_id; the
\* dict it builds of the event is the payload "forward"
signal_forward(self, user_id, event, now) ==
  IF event.from_user_id = user_id
  THEN Outcome(self, << >>, "None", FALSE)
  ELSE send_encrypted(self, "forward", now)

\* CallConsumer.receive(text_data, bytes_data)
call_receive(self, m, nonce_rnd, server_priv) ==
  IF m.kind # "text" \/ Len(m.text) = 0
  THEN Outcome(self, << >>, "None", FALSE)
  ELSE IF m.is_json /\ ~m.is_dict
  THEN \* data.get raises AttributeError, caught by the outer handler
       Outcome(self, << >>, "None", FALSE)
  ELSE IF m.is_json /\ m.type = "req_dh_params"
  THEN call_req_dh_params(self, m, nonce_rnd)
  ELSE IF m.is_json /\ m.type = "set_client_dh_params"
  THEN call_set_client_dh_params(self, m, server_priv)
  ELSE call_encrypted(self, m.text)

\* ------------------------------------------------------------------------
\* OdnixPacket (odnix_proto.py)
\* ------------------------------------------------------------------------

\* a from_bytes that slices whatever it is given
OdnixPacket_from_bytes_unchecked(data) ==
  [exc |-> "none", auth_key_id |-> Slice(data, 0, 8),
   msg_key |-> Slice(data, 8, 24), encrypted_data |-> SliceFrom(data, 24)]

\* OdnixPacket.from_bytes(data): [exc, auth_key_id, msg_key, encrypted_data]
OdnixPacket_from_bytes(data) ==
  IF Len(data) < 24
  THEN [exc |-> "ValueError", auth_key_id |-> << >>, msg_key |-> << >>,
        encrypted_data |-> << >>]
  ELSE [exc |-> "none", auth_key_id |-> Slice(data, 0, 8),
        msg_key |-> Slice(data, 8, 24), encrypted_data |-> SliceFrom(data, 24)]

\* a to_bytes that writes the message key first
OdnixPacket_to_bytes_swapped(auth_key_id, msg_key, encrypted_data) ==
  msg_key \o auth_key_id \o encrypted_data

\* OdnixPacket.to_bytes()
OdnixPacket_to_bytes(auth_key_id, msg_key, encrypted_data) ==
  auth_key_id \o msg_key \o encrypted_data

\* write_int(data): struct.pack('<I', data)
write_int(n) == PackLE(n, 4)

\* a to_bytes with the padding of PKCS7, 1..16 bytes
OdnixPayload_to_bytes_short(salt, session_id, msg_id, seq_no, msg_bytes, rnd) ==
  LET payload == salt \o session_id \o write_long(msg_id) \o write_int(seq_no)
                   \o write_int(Len(msg_bytes)) \o msg_bytes
  IN  payload \o Repeat(rnd, 16 - (Len(payload) % 16))

\* OdnixPayload(salt, session_id, msg_id, seq_no, message).to_bytes(), where
\* message.to_bytes() is msg_bytes and every byte of os.urandom(pad_len) is
\* rnd
OdnixPayload_to_bytes(salt, session_id, msg_id, seq_no, msg_bytes, rnd) ==
  LET msg_len == Len(msg_bytes)
      header == salt \o session_id \o write_long(msg_id) \o write_int(seq_no)
                  \o write_int(msg_len)
      payload == header \o msg_bytes
      pad_len0 == 16 - (Len(payload) % 16)
      pad_len == IF pad_len0 < 12 THEN pad_len0 + 16 ELSE pad_len0
      padding == Repeat(rnd, pad_len)
  IN  payload \o padding

\* ------------------------------------------------------------------------
\* OdnixGatewayConsumer
\* ------------------------------------------------------------------------

\* AES.new(key, AES.MODE_CBC, iv).decrypt(data): ValueError unless the length
\* is a multiple of 16; P_i = DEC(C_i) XOR C_{i-1} with C_0 = iv
RECURSIVE cbc_decrypt_loop(_, _, _, _)
cbc_decrypt_loop(data, key, i, prev) ==
  IF i >= Len(data) THEN << >>
  ELSE LET c == Slice(data, i, i + block_size)
       IN  XorBlock(AesDecBlock(key, c), prev)
             \o cbc_decrypt_loop(data, key, i + block_size, c)

aes_cbc_decrypt(data, key, iv) ==
  IF Len(data) % block_size # 0 THEN [exc |-> "ValueError", data |-> << >>]
  ELSE [exc |-> "none", data |-> cbc_decrypt_loop(data, key, 0, iv)]

\* struct.unpack('<I', b)[0]: struct.error unless b has 4 bytes.  A value of
\* 2^30 or more is reported as 2^30: it is only used as a slice bound, and
\* no buffer of the model is that long.
unpack_uint32(b) ==
  IF Len(b) # 4 THEN [exc |-> "struct.error", value |-> 0]
  ELSE IF b[4] >= 64 THEN [exc |-> "none", value |-> 1073741824]
  ELSE [exc |-> "none",
        value |-> b[1] + 256 * b[2] + 65536 * b[3] + 16777216 * b[4]]

\* Whether the name hashlib resolves inside decrypt_binary_payload.
\* consumers.py imports hashlib only inside other functions (lines 350 and
\* 693), which binds the name locally there; the module's own imports
\* (lines 1-9) do not include it, so the lookup at line 719 raises NameError.
hashlib_in_module_scope == FALSE

\* The parsing of the decrypted inner payload in decrypt_binary_payload
\* (lines 729-735, inside its try): the length at [28:32], the JSON text at
\* [32:32+data_len].  A Python slice stops at the end of the buffer.  Every
\* exception is caught and None returned.
parse_inner_payload(decrypted) ==
  LET data_len == unpack_uint32(Slice(decrypted, 28, 32))
      failed == [exc |-> "none", value |-> "None"]
  IN  IF data_len.exc # "none" THEN failed
      ELSE LET json_bytes == Slice(decrypted, 32, 32 + data_len.value)
               payload_json == json_loads(json_bytes)
           IN  IF payload_json.exc # "none" THEN failed
               ELSE [exc |-> "none", value |-> payload_json.value]

\* OdnixGatewayConsumer.decrypt_binary_payload(packet): [exc, value].  The
\* key derivation is outside the try block, so its NameError propagates;
\* every exception inside the try block is caught and turned into None.
decrypt_binary_payload(self, packet) ==
  IF Falsy(self.auth_key) THEN [exc |-> "none", value |-> "None"]
  ELSE IF ~hashlib_in_module_scope THEN [exc |-> "NameError", value |-> "None"]
  ELSE LET ka  == packet.msg_key \o self.auth_key
           kb  == self.auth_key \o packet.msg_key
           key == sha256(ka)
           iv  == Slice(sha256(kb), 0, 16)
           decrypted == aes_cbc_decrypt(packet.encrypted_data, key, iv)
       IN  IF decrypted.exc # "none" THEN [exc |-> "none", value |-> "None"]
           ELSE parse_inner_payload(decrypted.data)

\* OdnixGatewayConsumer.handle_handshake_packet(data), for non-empty data,
\* with get_random_bytes(16) returning nonce_rnd
handle_handshake_packet(self, data, nonce_rnd) ==
  LET op_code == data[1]
  IN  IF op_code = 1
      THEN LET nonce == Slice(data, 1, 17)
               dh == create_dh_config(self.proto, nonce_rnd)
               s_nonce == dh.config.server_nonce
               combined == nonce \o s_nonce
               key == sha256(combined)
               reply == <<2>> \o nonce \o s_nonce
           IN  Outcome([self EXCEPT !.auth_key = key,
                                    !.proto = [dh.proto EXCEPT !.auth_key = key]],
                       <<Reply("0x02", nonce, s_nonce, 0, 0, None, reply)>>,
                       "None", FALSE)
      ELSE Outcome(self, << >>, "None", FALSE)

\* OdnixGatewayConsumer.dispatch_rpc(payload): it only logs; none of the
\* payloads of the model has a 'method', so nothing raises
dispatch_rpc(self, payload) == Outcome(self, << >>, payload, FALSE)

\* a gateway receive that routes every opcode-0x01 frame to the handshake
\* handler, whether or not the session holds a key
gw_receive_rehandshake(self, m, nonce_rnd) ==
  IF m.kind = "text" /\ Len(m.text) > 0
  THEN Outcome(self, << >>, "None", FALSE)
  ELSE IF Len(m.bytes) = 0
  THEN Outcome(self, << >>, "None", FALSE)
  ELSE IF Falsy(self.auth_key) \/ m.bytes[1] = 1
  THEN handle_handshake_packet(self, m.bytes, nonce_rnd)
  ELSE Outcome(self, << >>, "None", FALSE)

\* OdnixGatewayConsumer.receive(text_data, bytes_data)
gw_receive(self, m, nonce_rnd) ==
  IF m.kind = "text" /\ Len(m.text) > 0
  THEN Outcome(self, << >>, "None", FALSE)
  ELSE IF Len(m.bytes) = 0
  THEN Outcome(self, << >>, "None", FALSE)
  ELSE IF Falsy(self.auth_key)
  THEN handle_handshake_packet(self, m.bytes, nonce_rnd)
  ELSE LET packet == OdnixPacket_from_bytes(m.bytes)
       IN  IF packet.exc # "none"
           THEN Outcome(self, << >>, "None", FALSE)
           ELSE LET decrypted_data == decrypt_binary_payload(self, packet)
                IN  IF decrypted_data.exc # "none"
                    THEN \* the outer handler logs the error and closes
                         Outcome(self, << >>, "None", TRUE)
                    ELSE IF ~Truthy(decrypted_data.value)
                    THEN Outcome(self, << >>, "None", FALSE)
                    ELSE dispatch_rpc(self, decrypted_data.value)

\* ------------------------------------------------------------------------
\* The environment: what clients send
\* ------------------------------------------------------------------------

\* a key no session of the model derives
ForeignKey == sha256(<<0>>)

\* The session object of a peer that holds the key auth_key
Peer(auth_key) ==
  [OdnixSecurity(Repeat(5, 8), Repeat(6, 8)) EXCEPT !.auth_key = auth_key]

\* The key a peer of the session uses: the session's key, a foreign key while
\* the session has none
PeerKey(proto) == IF Falsy(proto.auth_key) THEN ForeignKey ELSE proto.auth_key

\* The frame the peer makes of payload p with wrap_message
PeerFrame(proto, p, now) == wrap_message(Peer(PeerKey(proto)), p, now).text

\* The frame a sender holding the key makes of payload p when it does not
\* take the message key from the content: msg_key is 16 bytes of its own
\* choice, the key and IV are derived from it as wrap_message derives them
ForgedKeyFrame(proto, p, now) ==
  LET sender == Peer(PeerKey(proto))
      inner_data == sender.salt \o sender.session_id \o write_long(now) \o json_dumps(p)
      msg_key == Repeat(0, 16)
      aes_key == sha256(msg_key \o sender.auth_key)
      aes_iv  == sha256(sender.auth_key \o msg_key)
  IN  b64encode(SliceFrom(sha1(sender.auth_key), 12) \o msg_key
                  \o aes_ige_encrypt(inner_data, aes_key, aes_iv))

\* a base64 text of 10 bytes: shorter than a packet header
ShortFrame == b64encode(Repeat(7, 10))

\* The handshake messages and the unexpected messages of a call socket;
\* self is the consumer the client talks to
CallPlainMsgs(self) ==
  { JsonMsg("req", "req_dh_params", ClientNonce, None, None),
    JsonMsg("set_ok", "set_client_dh_params", ClientNonce,
            self.proto.server_nonce, format_hex(ClientPub)),
    JsonMsg("set_no_gb", "set_client_dh_params", ClientNonce,
            self.proto.server_nonce, None),
    JsonMsg("set_bad_gb", "set_client_dh_params", ClientNonce,
            self.proto.server_nonce, <<1, HexOther, 2>>),
    JsonMsg("json_other", "webrtc.offer", None, None, None),
    Msg("json_nondict", "text", TRUE, FALSE, "None", None, None, None,
        <<B64Other>>, << >>),
    TextMsg("frame_short", ShortFrame),
    BytesMsg("binary", <<1, 2, 3>>) }

\* A set_client_dh_params that answers no res_dh_params of the session: its
\* nonce and server_nonce are values the session never saw
CallForeignMsgs ==
  { JsonMsg("set_foreign", "set_client_dh_params", Repeat(98, 16), Repeat(99, 16),
            format_hex(ClientPub)) }

\* A quiet client: it only runs the handshake and sends a short frame
CallQuietMsgs(self) ==
  {m \in CallPlainMsgs(self) : m.label \in {"req", "set_ok", "frame_short"}}

\* The frames a client sends once it holds (or believes it holds) the key
CallFrameMsgs(self) ==
  {TextMsg(p, PeerFrame(self.proto, p, 1700000000)) : p \in Payloads}
    \cup {TextMsg("forged_key", ForgedKeyFrame(self.proto, "ping", 1700000000))}

\* What a client of the gateway sends
GwMsgs ==
  { BytesMsg("op1", <<1>> \o ClientNonce),
    BytesMsg("op1_long", <<1>> \o ClientNonce \o Repeat(9, 16)),
    BytesMsg("op3", <<3>> \o ClientNonce),
    BytesMsg("empty", << >>),
    TextMsg("text", ShortFrame) }

\* Whether m is a recognized handshake message of the socket class of c:
\* a JSON object of type req_dh_params or set_client_dh_params on a call
\* socket, a binary frame with opcode 0x01 on the gateway
IsHandshakeMsg(c, m) ==
  IF c \in GwConns
  THEN m.kind = "bytes" /\ Len(m.bytes) > 0 /\ m.bytes[1] = 1
  ELSE /\ m.kind = "text" /\ m.is_json /\ m.is_dict
       /\ m.type \in {"req_dh_params", "set_client_dh_params"}

\* ------------------------------------------------------------------------
\* The state machine
\* ------------------------------------------------------------------------

NoRet == [exc |-> "none", value |-> "None", text |-> << >>]

\* The record of the handler that ran last: its connection c, the operation,
\* the label of its input, whether the input is a handshake message, the
\* text or bytes it was given, the consumer before, and the outcome
Last(c, op, msg, hs, input, pre, o, ret) ==
  [conn |-> c, op |-> op, msg |-> msg, hs |-> hs, input |-> input, pre |-> pre,
   sent |-> o.sent, dispatched |-> o.dispatched, closed |-> o.closed, ret |-> ret]

NoClient == [priv |-> 0, stage |-> "idle", server_nonce |-> None, auth_key |-> None]

NoConsumer == NewConsumer(<<None, None>>)

\* Every endpoint has accepted its first connection
Init ==
  /\ conn \in {f \in [Conns -> UNION {{NewConsumer(ids) : ids \in ConnIds(c)} : c \in Conns}] :
                 \A c \in Conns : \E ids \in ConnIds(c) : f[c] = NewConsumer(ids)}
  /\ last = Last("none", "init", "None", FALSE, << >>, NoConsumer,
                 Outcome(NoConsumer, << >>, "None", FALSE), NoRet)
  /\ client = [c \in CallConns |-> NoClient]
  /\ message = NewMessage
  /\ request = [r \in Requests |-> NewRequest]

\* A framework in which the consumers of one class share one OdnixSecurity
RanShared(c, op, label, hs, input, o) ==
  /\ conn' = [d \in Conns |->
                IF d = c THEN [o.self EXCEPT !.open = @ /\ ~o.closed]
                ELSE IF (d \in CallConns) = (c \in CallConns)
                THEN [conn[d] EXCEPT !.proto = o.self.proto]
                ELSE conn[d]]
  /\ last' = Last(c, op, label, hs, input, conn[c], o, NoRet)

\* The framework runs a handler on the consumer of c: the consumer becomes
\* what the handler left, and the transport is closed if the handler closed
\* it.  No other consumer is touched: every consumer has its own fields and
\* its own OdnixSecurity.
Ran(c, op, label, hs, input, o) ==
  /\ conn' = [conn EXCEPT ![c] = [o.self EXCEPT !.open = @ /\ ~o.closed]]
  /\ last' = Last(c, op, label, hs, input, conn[c], o, NoRet)

\* CallConsumer.receive on connection c, for a message out of msgs
CallReceive(c, msgs) ==
  /\ c \in CallConns
  /\ conn[c].open
  /\ \E m \in msgs :
       \E nonce_rnd \in (IF m.type = "req_dh_params" THEN ServerNonces
                         ELSE {Repeat(33, 16)}),
          server_priv \in (IF m.type = "set_client_dh_params" THEN ServerPrivs
                           ELSE {2}) :
         Ran(c, "receive", m.label, IsHandshakeMsg(c, m), m.text,
             call_receive(conn[c], m, nonce_rnd, server_priv))
  /\ UNCHANGED <<client, message, request>>

\* OdnixGatewayConsumer.receive on connection c
GwReceive(c) ==
  /\ c \in GwConns
  /\ conn[c].open
  /\ \E m \in GwMsgs, nonce_rnd \in ServerNonces :
       Ran(c, "receive", m.label, IsHandshakeMsg(c, m), m.bytes,
           gw_receive(conn[c], m, nonce_rnd))
  /\ UNCHANGED <<client, message, request>>

\* The transport of c disconnects.  OdnixGatewayConsumer.disconnect only
\* logs and CallConsumer defines no disconnect: no field is assigned to.
Disconnect(c) ==
  /\ conn[c].open
  /\ Ran(c, "disconnect", "None", FALSE, << >>, Outcome(conn[c], << >>, "None", TRUE))
  /\ UNCHANGED <<client, message, request>>

\* A new connection on the endpoint c: connect() builds a new consumer with
\* a new OdnixSecurity
Connect(c) ==
  /\ ~conn[c].open
  /\ \E ids \in ConnIds(c) :
       Ran(c, "connect", "None", FALSE, << >>,
           Outcome(NewConsumer(ids), << >>, "None", FALSE))
  /\ UNCHANGED <<client, message, request>>

\* A call of wrap_message on the session object of c, for a payload out of
\* payloads at a clock reading out of clock.  (Its callers in the consumer,
\* send_signal and send_encrypted, test handshake_complete first; this is
\* the method called as it is.)
ApiWrap(c, payloads, clock) ==
  \E p \in payloads, now \in clock :
    LET r == wrap_message(conn[c].proto, p, now)
    IN  /\ last' = Last(c, "wrap", p, FALSE, << >>, conn[c],
                        Outcome(conn[c], << >>, "None", FALSE),
                        [exc |-> r.exc, value |-> "None", text |-> r.text])
        /\ UNCHANGED <<conn, client, message, request>>

\* The texts unwrap_message is called with
UnwrapInputs(proto) ==
  {TextMsg(p, PeerFrame(proto, p, now)) : p \in Payloads, now \in Clock}
    \cup {TextMsg("forged_key", ForgedKeyFrame(proto, "ping", 1700000000)),
          TextMsg("frame_short", ShortFrame)}

\* A direct call of unwrap_message on the session object of c
ApiUnwrap(c) ==
  \E m \in UnwrapInputs(conn[c].proto) :
    LET r == unwrap_message(conn[c].proto, m.text)
    IN  /\ last' = Last(c, "unwrap", m.label, FALSE, m.text, conn[c],
                        Outcome(conn[c], << >>, "None", FALSE),
                        [exc |-> r.exc, value |-> r.value, text |-> << >>])
        /\ UNCHANGED <<conn, client, message, request>>

\* The sockets of the program with their clients: c1 and the gateway g1 with
\* every handshake and unexpected message, disconnects and reconnects; c2
\* with a quiet client and a sender of pings
Next ==
  \/ CallReceive("c1", CallPlainMsgs(conn["c1"]))
  \/ CallReceive("c2", CallQuietMsgs(conn["c2"]))
  \/ GwReceive("g1")
  \/ ApiWrap("c2", {"ping"}, {1700000000})
  \/ \E c \in {"c1", "g1"} : Disconnect(c) \/ Connect(c)

Spec == Init /\ [][Next]_vars

\* One call socket whose client also sends frames, and a caller of the
\* session object's wrap_message and unwrap_message
SessionNext ==
  \/ CallReceive("c1", CallPlainMsgs(conn["c1"]) \cup CallFrameMsgs(conn["c1"])
                         \cup CallForeignMsgs)
  \/ ApiWrap("c1", Payloads, Clock)
  \/ ApiUnwrap("c1")

SessionSpec == Init /\ [][SessionNext]_vars

\* The client of scripts/test_call_handshake.py reads the reply msg of
\* req_dh_params: it must be res_dh_params, and its server_nonce is kept
client_on_res(msg) ==
  [NoClient EXCEPT !.stage = "got_res", !.server_nonce = msg.server_nonce]

\* The client sends req_dh_params on connection c and reads res_dh_params
ClientSendsReq(c, m, o) ==
  /\ o.sent[1].type = "res_dh_params"
  /\ Ran(c, "receive", m.label, TRUE, m.text, o)
  /\ client' = [client EXCEPT ![c] = client_on_res(o.sent[1])]
  /\ UNCHANGED <<message, request>>

ClientReq(c) ==
  /\ conn[c].open
  /\ client[c].stage = "idle"
  /\ \E nonce_rnd \in ServerNonces :
       ClientSendsReq(c, JsonMsg("req", "req_dh_params", ClientNonce, None, None),
                      call_receive(conn[c],
                                   JsonMsg("req", "req_dh_params", ClientNonce, None, None),
                                   nonce_rnd, 1))

\* The private exponents of the exchange: the client draws
\* secrets.randbits(256), the server number.getRandomRange(1, prime - 1)
ClientPrivs == 0 .. MaxExp

DhServerPrivs == (1 .. MaxExp) \cup {DH_PRIME - 2}

\* what the client sends in set_client_dh_params: gb = format(client_pub, 'x')
client_set_req(cl, client_priv) ==
  JsonMsg("set_ok", "set_client_dh_params", ClientNonce, cl.server_nonce,
          format_hex(pow(DH_G, client_priv, DH_PRIME)))

\* the key the client derives from the ga of dh_gen_ok
client_auth_key(ga, client_priv) ==
  sha256(int_to_bytes(pow(int16(ga).value, client_priv, DH_PRIME)))

\* The client sends set_client_dh_params on connection c and reads dh_gen_ok
ClientSendsSet(c, client_priv, m, o) ==
  /\ o.sent[1].type = "dh_gen_ok"
  /\ Ran(c, "receive", m.label, TRUE, m.text, o)
  /\ client' = [client EXCEPT ![c] =
                  [@ EXCEPT !.priv = client_priv, !.stage = "done",
                            !.auth_key = client_auth_key(o.sent[1].ga, client_priv)]]
  /\ UNCHANGED <<message, request>>

ClientSetDh(c) ==
  /\ conn[c].open
  /\ client[c].stage = "got_res"
  /\ \E client_priv \in ClientPrivs, server_priv \in DhServerPrivs :
       ClientSendsSet(c, client_priv, client_set_req(client[c], client_priv),
                      call_receive(conn[c], client_set_req(client[c], client_priv),
                                   Repeat(33, 16), server_priv))

\* One call socket and the client of the handshake script
DhNext ==
  \/ ClientReq("c1")
  \/ ClientSetDh("c1")

DhSpec == Init /\ [][DhNext]_vars

\* The handshake script's client on one call socket whose server handles
\* every message delivered to it, while frames arrive and wrap_message is
\* called at any time
LiveNext ==
  \/ ClientReq("c1")
  \/ ClientSetDh("c1")
  \/ CallReceive("c1", {TextMsg("ping", PeerFrame(conn["c1"].proto, "ping", 1700000000))})
  \/ ApiWrap("c1", {"ping"}, {1700000000})

\* A message the client has sent is delivered and receive runs on it: the
\* two steps of the client are weakly fair
LiveSpec ==
  /\ Init
  /\ [][LiveNext]_vars
  /\ WF_vars(ClientReq("c1"))
  /\ WF_vars(ClientSetDh("c1"))

\* ------------------------------------------------------------------------
\* Signals sent to the call sockets of a room
\* ------------------------------------------------------------------------

\* self.user.id of the consumer of a call socket
UserOf(c) == IF c = "c1" THEN 1 ELSE 2

\* The group delivers a send_signal event to the consumer of c: the signal
\* of the consumer with channel origin, relayed by handle_decrypted_signal
SendSignal(c) ==
  /\ c \in CallConns
  /\ conn[c].open
  /\ \E origin \in CallConns, p \in {"ping", "offer"} :
       Ran(c, "send_signal", p, FALSE, origin,
           send_signal(conn[c], c, [original_sender_channel |-> origin, message |-> p],
                       1700000000))
  /\ UNCHANGED <<client, message, request>>

\* The group delivers a signal_forward event of user 1 to the consumer of c
SignalForward(c) ==
  /\ c \in CallConns
  /\ conn[c].open
  /\ Ran(c, "signal_forward", "forward", FALSE, 1,
         signal_forward(conn[c], UserOf(c), [from_user_id |-> 1], 1700000000))
  /\ UNCHANGED <<client, message, request>>

\* Two call sockets of one room, their clients running the handshake, and
\* the signals of the room delivered to both
SignalNext ==
  \/ CallReceive("c1", CallQuietMsgs(conn["c1"]))
  \/ CallReceive("c2", CallQuietMsgs(conn["c2"]))
  \/ SendSignal("c1")
  \/ SendSignal("c2")
  \/ SignalForward("c1")
  \/ SignalForward("c2")

SignalSpec == Init /\ [][SignalNext]_vars

\* ------------------------------------------------------------------------
\* One-time messages
\* ------------------------------------------------------------------------

\* the latest reading of timezone.now() of the model
MaxNow == 2

\* what timezone.now() can return: not before the time already stored
Now == {t \in 1..MaxNow : t >= message.consumed_at}

\* views.chat.consume_one_time_message, its query: Message.objects.get(id,
\* chat__participants=request.user, one_time=True) by a participant
HttpGet(r) ==
  /\ r \in HttpRequests
  /\ request[r].pc = "start"
  /\ message.one_time
  /\ request' = [request EXCEPT ![r] = [@ EXCEPT !.pc = "loaded", !.row = message]]
  /\ UNCHANGED <<conn, last, client, message>>

\* views.chat.consume_one_time_message after its query: the test of
\* message.consumed_at on the loaded object, then the assignment, the save of
\* the one column and the answer
HttpSave(r) ==
  /\ r \in HttpRequests
  /\ request[r].pc = "loaded"
  /\ IF request[r].row.consumed_at # Null
     THEN /\ request' = [request EXCEPT ![r] = [@ EXCEPT !.pc = "done"]]
          /\ UNCHANGED message
     ELSE \E now \in Now :
            /\ message' = [message EXCEPT !.consumed_at = now]
            /\ request' = [request EXCEPT ![r] =
                             [@ EXCEPT !.pc = "done", !.success = TRUE,
                                       !.content = request[r].row.content,
                                       !.row = [request[r].row EXCEPT !.consumed_at = now],
                                       !.consumed_at = now]]
  /\ UNCHANGED <<conn, last, client>>

\* ChatConsumer.consume_one_time_message, its query:
\* Message.objects.filter(id, one_time=True, consumed_at__isnull=True).first()
WsFilter(r) ==
  /\ r \in WsRequests
  /\ request[r].pc = "start"
  /\ IF message.one_time /\ message.consumed_at = Null
     THEN request' = [request EXCEPT ![r] = [@ EXCEPT !.pc = "loaded", !.row = message]]
     ELSE request' = [request EXCEPT ![r] = [@ EXCEPT !.pc = "done"]]
  /\ UNCHANGED <<conn, last, client, message>>

\* ChatConsumer.consume_one_time_message after its query, and
\* handle_message_consume: the assignment, the save of the one column, and
\* message_consumed sent to the group
WsSave(r) ==
  /\ r \in WsRequests
  /\ request[r].pc = "loaded"
  /\ \E now \in Now :
       /\ message' = [message EXCEPT !.consumed_at = now]
       /\ request' = [request EXCEPT ![r] =
                        [@ EXCEPT !.pc = "done", !.success = TRUE, !.event = TRUE,
                                  !.row = [request[r].row EXCEPT !.consumed_at = now],
                                  !.consumed_at = now]]
  /\ UNCHANGED <<conn, last, client>>

\* The consume requests of chat participants, served by the threads of the
\* server in any interleaving of their database queries
ConsumeNext ==
  \/ \E r \in HttpRequests : HttpGet(r)
  \/ \E r \in HttpRequests : HttpSave(r)
  \/ \E r \in WsRequests : WsFilter(r)
  \/ \E r \in WsRequests : WsSave(r)

ConsumeSpec == Init /\ [][ConsumeNext]_vars

\* ------------------------------------------------------------------------
\* The cipher and the decoders on their own
\* ------------------------------------------------------------------------

\* The byte strings tried: every length up to MaxLen, filled with one value
\* (0, 1 and 16 are pad lengths or none, 200 is out of range) or with a ramp
CodecInputs ==
  {Repeat(v, n) : v \in {0, 1, 16, 200}, n \in 0..MaxLen}
    \cup {[i \in 1..n |-> (i * 37 + 5) % 256] : n \in 0..MaxLen}

\* 32-byte AES keys
CodecKeys == {sha256(<<1>>), sha256(<<2>>)}

\* 32-byte IVs whose two halves differ
CodecIvs == {sha256(<<3>>), Repeat(0, 16) \o Repeat(255, 16)}

\* an established session and an established gateway consumer
CodecSession == Peer(ForeignKey)

CodecGateway ==
  [NewConsumer(<<Repeat(21, 8), Repeat(22, 8)>>)
     EXCEPT !.auth_key = ForeignKey, !.proto.auth_key = ForeignKey]

\* The record of a call of the cipher or of a decoder: the operation, its
\* input, key and IV, the byte string the input was made from, the result
CodecRec(op, input, key, iv, orig, out) ==
  [conn |-> "none", op |-> op, msg |-> "None", hs |-> FALSE, input |-> input,
   pre |-> NoConsumer, sent |-> << >>, dispatched |-> "None", closed |-> FALSE,
   ret |-> NoRet, key |-> key, iv |-> iv, orig |-> orig, out |-> out]

CodecInit ==
  /\ conn = [c \in Conns |-> NewConsumer(CHOOSE ids \in ConnIds(c) : TRUE)]
  /\ client = [c \in CallConns |-> NoClient]
  /\ message = NewMessage
  /\ request = [r \in Requests |-> NewRequest]
  /\ last \in {CodecRec("input", x, key, iv, x, << >>) :
                 x \in CodecInputs, key \in CodecKeys, iv \in CodecIvs}

\* aes_ige_encrypt(data, key, iv) on the chosen byte string
IgeEncrypt ==
  /\ last.op = "input"
  /\ last' = CodecRec("ige_encrypt", last.input, last.key, last.iv, last.input,
                      aes_ige_encrypt(last.input, last.key, last.iv))
  /\ UNCHANGED <<conn, client, message, request>>

\* aes_ige_decrypt(data, key, iv) on what aes_ige_encrypt returned
IgeDecrypt ==
  /\ last.op = "ige_encrypt"
  /\ last' = CodecRec("ige_decrypt", last.out, last.key, last.iv, last.orig,
                      aes_ige_decrypt(last.out, last.key, last.iv))
  /\ UNCHANGED <<conn, client, message, request>>

\* aes_ige_decrypt on the chosen byte string taken as a ciphertext
IgeDecryptBuffer ==
  /\ last.op = "input"
  /\ last' = CodecRec("ige_decrypt_buffer", last.input, last.key, last.iv, last.input,
                      aes_ige_decrypt(last.input, last.key, last.iv))
  /\ UNCHANGED <<conn, client, message, request>>

\* aes_ige_decrypt on a ciphertext made to decrypt to the chosen byte
\* string, whole blocks with nothing appended
IgeDecryptChosen ==
  /\ last.op = "input"
  /\ Len(last.input) > 0
  /\ Len(last.input) % block_size = 0
  /\ last' = CodecRec("ige_decrypt_chosen",
                      ige_encrypt_loop(last.input, last.key, 0,
                                       Slice(last.iv, 0, block_size),
                                       SliceFrom(last.iv, block_size)),
                      last.key, last.iv, last.input,
                      aes_ige_decrypt(ige_encrypt_loop(last.input, last.key, 0,
                                                       Slice(last.iv, 0, block_size),
                                                       SliceFrom(last.iv, block_size)),
                                      last.key, last.iv))
  /\ UNCHANGED <<conn, client, message, request>>

\* The decoders on the chosen byte string taken as a wire frame:
\* OdnixPacket.from_bytes, unwrap_message of an established session on its
\* base64 text, and the receive handler of an established gateway consumer
Decode ==
  /\ last.op = "input"
  /\ last' = CodecRec("decode", last.input, last.key, last.iv, last.input,
                      [from_bytes |-> OdnixPacket_from_bytes(last.input),
                       unwrap |-> unwrap_message(CodecSession, b64encode(last.input)),
                       gw |-> gw_receive(CodecGateway, BytesMsg("raw", last.input),
                                         Repeat(33, 16))])
  /\ UNCHANGED <<conn, client, message, request>>

\* unwrap_message of an established session on a text that need not be
\* base64: the chosen byte string read as characters
DecodeText ==
  /\ last.op = "input"
  /\ last' = CodecRec("decode_text", [i \in 1..Len(last.input) |-> last.input[i] % 66],
                      last.key, last.iv, last.input,
                      [unwrap |-> unwrap_message(CodecSession,
                                    [i \in 1..Len(last.input) |-> last.input[i] % 66])])
  /\ UNCHANGED <<conn, client, message, request>>

\* The inner-payload parsing of decrypt_binary_payload on a decrypted
\* buffer: 28 header bytes out of the chosen byte string, a declared length
\* that is the length of the JSON text or more, the JSON text, a padding
ParseInner ==
  /\ last.op = "input"
  /\ Len(last.input) >= 28
  /\ \E p \in Payloads, over \in {0, 5}, pad \in {0, 12} :
       last' = CodecRec("parse_inner",
                        Slice(last.input, 0, 28) \o PackLE(Len(json_dumps(p)) + over, 4)
                          \o json_dumps(p) \o Repeat(0, pad),
                        last.key, last.iv, json_dumps(p),
                        parse_inner_payload(
                          Slice(last.input, 0, 28) \o PackLE(Len(json_dumps(p)) + over, 4)
                            \o json_dumps(p) \o Repeat(0, pad)))
  /\ UNCHANGED <<conn, client, message, request>>

\* OdnixPacket(auth_key_id, msg_key, encrypted_data).to_bytes() and
\* OdnixPacket.from_bytes of the result: the id is 8 bytes of the chosen
\* key, the message key 16 bytes of the chosen IV, the ciphertext the chosen
\* byte string
PacketRoundTrip ==
  /\ last.op = "input"
  /\ last' = CodecRec("packet",
                      OdnixPacket_to_bytes(Slice(last.key, 0, 8), Slice(last.iv, 0, 16),
                                           last.input),
                      last.key, last.iv, last.input,
                      [to_bytes |-> OdnixPacket_to_bytes(Slice(last.key, 0, 8),
                                                         Slice(last.iv, 0, 16), last.input),
                       from_bytes |-> OdnixPacket_from_bytes(
                                        OdnixPacket_to_bytes(Slice(last.key, 0, 8),
                                                             Slice(last.iv, 0, 16),
                                                             last.input))])
  /\ UNCHANGED <<conn, client, message, request>>

\* OdnixPayload.to_bytes() of a message whose body is the chosen byte
\* string, with salt and session_id out of the chosen key, a time and a
\* sequence number
PayloadEncode ==
  /\ last.op = "input"
  /\ \E rnd \in {0, 255} :
       last' = CodecRec("payload", last.input, last.key, last.iv, last.input,
                        OdnixPayload_to_bytes(Slice(last.key, 0, 8), Slice(last.key, 8, 16),
                                              1700000000, 3, last.input, rnd))
  /\ UNCHANGED <<conn, client, message, request>>

CodecNext ==
  \/ IgeEncrypt
  \/ IgeDecrypt
  \/ IgeDecryptBuffer
  \/ IgeDecryptChosen
  \/ Decode
  \/ DecodeText
  \/ ParseInner
  \/ PacketRoundTrip
  \/ PayloadEncode

CodecSpec == CodecInit /\ [][CodecNext]_vars

\* ------------------------------------------------------------------------
\* Frames on established sockets
\* ------------------------------------------------------------------------

\* frames that are no frames: a header and one block of noise, and a header
\* and a ciphertext that is not whole blocks
GarbageFrame == Repeat(9, 40)

BadLengthFrame == Repeat(9, 29)

\* the bytes of the frame the peer makes of payload p with wrap_message
PeerPacket(proto, p, now) == b64decode(PeerFrame(proto, p, now)).data

\* What a client sends to the gateway once it holds the key
GwFrameMsgs(self) ==
  {BytesMsg(p, PeerPacket(self.proto, p, 1700000000)) : p \in {"ping", "offer"}}
    \cup {BytesMsg("garbage", GarbageFrame), BytesMsg("bad_length", BadLengthFrame)}

\* What a client sends to a call socket besides valid frames
CallMalformedMsgs ==
  {TextMsg("garbage", b64encode(GarbageFrame)),
   TextMsg("bad_length", b64encode(BadLengthFrame))}

\* the labels of the inputs that are malformed frames for an established
\* session
MalformedLabels == {"frame_short", "garbage", "bad_length", "op3"}

\* OdnixGatewayConsumer.receive on connection c, for a frame
GwFrameReceive(c) ==
  /\ c \in GwConns
  /\ conn[c].open
  /\ \E m \in GwFrameMsgs(conn[c]) :
       Ran(c, "receive", m.label, IsHandshakeMsg(c, m), m.bytes,
           gw_receive(conn[c], m, Repeat(33, 16)))
  /\ UNCHANGED <<client, message, request>>

\* The gateway and one call socket, their clients running the handshake and
\* then sending valid and malformed frames
GatewayNext ==
  \/ GwReceive("g1")
  \/ GwFrameReceive("g1")
  \/ CallReceive("c2", CallQuietMsgs(conn["c2"]) \cup CallFrameMsgs(conn["c2"])
                         \cup CallMalformedMsgs)
  \/ Disconnect("g1")
  \/ Connect("g1")

GatewaySpec == Init /\ [][GatewayNext]_vars

\* ------------------------------------------------------------------------
\* Properties
\* ------------------------------------------------------------------------

\* What the protocol calls the session state of connection c
SessionView(c, self) ==
  [auth_key |-> AuthKeyOf(c, self), server_nonce |-> self.proto.server_nonce,
   salt |-> self.proto.salt, session_id |-> self.proto.session_id,
   stage |-> Stage(c, self)]

\* the session the last operation ran on, before and after it
PreSession == SessionView(last.conn, last.pre)

PostSession == SessionView(last.conn, conn[last.conn])

Acted == last.op # "init"

\* C1: whenever wrap_message or unwrap_message is called on a session whose
\* auth_key is absent, the call fails with the no-auth-key error, returns no
\* frame and no payload, and the session is what it was before the call.
Inv_C1 ==
  (Acted /\ last.op \in {"wrap", "unwrap"} /\ Falsy(last.pre.proto.auth_key))
    => /\ last.ret.exc = "NoAuthKey"
       /\ last.ret.text = << >>
       /\ last.ret.value = "None"
       /\ last.dispatched = "None"
       /\ conn[last.conn] = last.pre

\* C1's case: wrap_message fails on a session that has processed
\* req_dh_params (its server_nonce is set) but holds no key
Wit_C1 ==
  /\ last.op = "wrap"
  /\ last.pre.proto.server_nonce # None
  /\ Falsy(last.pre.proto.auth_key)
  /\ last.ret.exc = "NoAuthKey"

\* C2: on every connection, an operation that finds auth_key present leaves
\* it with the same value (only a new connection starts a new session).
Claim_C2 ==
  (Acted /\ last.op # "connect" /\ ~Falsy(PreSession.auth_key))
    => PostSession.auth_key = PreSession.auth_key

\* C3: a handshake message received by an established session is not
\* processed: no res_dh_params, dh_gen_ok or 0x02 reply is sent and the
\* session's server_nonce, auth_key and stage stay as they were.
Claim_C3 ==
  (last.op = "receive" /\ last.hs /\ Established(last.conn, last.pre))
    => /\ \A i \in 1..Len(last.sent) :
            last.sent[i].type \notin {"res_dh_params", "dh_gen_ok", "0x02"}
       /\ PostSession = PreSession

\* C4: a call-socket session becomes ESTABLISHED only out of
\* AWAITING_CLIENT_PUBLIC, never directly out of INIT.
Claim_C4 ==
  (/\ last.op = "receive"
   /\ last.conn \in CallConns
   /\ PreSession.stage # "ESTABLISHED"
   /\ PostSession.stage = "ESTABLISHED")
    => PreSession.stage = "AWAITING_CLIENT_PUBLIC"

\* C5: when the exchange req_dh_params, res_dh_params, set_client_dh_params,
\* dh_gen_ok has completed, the key the server stored is the key the client
\* derived, for every pair of private exponents.
Inv_C5 ==
  \A c \in CallConns :
    client[c].stage = "done"
      => /\ conn[c].proto.auth_key = client[c].auth_key
         /\ Len(client[c].auth_key) = 32
         /\ conn[c].handshake_complete

\* C5's case: a completed exchange with the largest client exponent whose
\* shared secret is not 1
Wit_C5 ==
  /\ client["c1"].stage = "done"
  /\ client["c1"].priv = MaxExp
  /\ conn["c1"].proto.auth_key = client["c1"].auth_key
  /\ client["c1"].auth_key # sha256(<<1>>)

\* C6: a frame wrapped by a session that holds the same auth_key, with other
\* salt and session_id, unwraps to exactly the payload that was wrapped; and
\* a frame this session wrapped unwraps to its payload on this session and
\* on the peer.
Inv_C6 ==
  /\ (last.op = "unwrap" /\ last.msg \in Payloads /\ ~Falsy(last.pre.proto.auth_key))
       => last.ret = [exc |-> "none", value |-> last.msg, text |-> << >>]
  /\ (last.op = "wrap" /\ last.ret.exc = "none")
       => /\ unwrap_message(last.pre.proto, last.ret.text)
               = [exc |-> "none", value |-> last.msg]
          /\ unwrap_message(Peer(last.pre.proto.auth_key), last.ret.text)
               = [exc |-> "none", value |-> last.msg]

\* C6's case: the established session unwrapped the peer's frame of the
\* "offer" payload, the peer's salt and session_id being other than its own
Wit_C6 ==
  /\ last.op = "unwrap"
  /\ last.msg = "offer"
  /\ ~Falsy(last.pre.proto.auth_key)
  /\ last.pre.proto.salt # Peer(last.pre.proto.auth_key).salt
  /\ last.pre.proto.session_id # Peer(last.pre.proto.auth_key).session_id
  /\ last.ret.value = "offer"

\* Whether the message key a frame carries is the one recomputed from what
\* the frame decrypts to: the first 16 bytes of sha256(auth_key + inner)
MsgKeyMatches(proto, b64_packet) ==
  LET dec == b64decode(b64_packet)
      packet == dec.data
  IN  /\ dec.exc = "none"
      /\ Len(packet) >= MinPacketLen
      /\ LET msg_key == Slice(packet, 8, 24)
             decrypted == aes_ige_decrypt(SliceFrom(packet, 24),
                                          sha256(msg_key \o proto.auth_key),
                                          sha256(proto.auth_key \o msg_key))
         IN  /\ decrypted.exc = "none"
             /\ Slice(sha256(proto.auth_key \o decrypted.data), 0, 16) = msg_key

\* C7: a frame whose message key differs from the recomputed one yields no
\* payload: unwrap_message returns nothing for it and the socket dispatches
\* nothing.
Claim_C7 ==
  (/\ last.op \in {"unwrap", "receive"}
   /\ last.conn \in CallConns
   /\ ~last.hs
   /\ ~Falsy(last.pre.proto.auth_key)
   /\ ~MsgKeyMatches(last.pre.proto, last.input))
    => last.ret.value = "None" /\ last.dispatched = "None"

\* C8: a connection that has disconnected holds no auth_key, and a new
\* connection starts without one.
Claim_C8 ==
  /\ \A c \in Conns : ~conn[c].open => Falsy(AuthKeyOf(c, conn[c]))
  /\ last.op = "connect" => Falsy(PostSession.auth_key)

\* C9: a step of one connection leaves the auth_key, server_nonce, salt,
\* session_id and stage of every other connection unchanged.
Thm_C9 ==
  [][\A d \in Conns :
       d # last'.conn => SessionView(d, conn'[d]) = SessionView(d, conn[d])]_vars

\* C9's case: c1 completed its handshake while c2 and the gateway connection
\* were open and established, each with a key of its own
Wit_C9 ==
  /\ last.op = "receive" /\ last.conn = "c1" /\ last.msg = "set_ok"
  /\ \A c \in Conns : conn[c].open /\ Established(c, conn[c])
  /\ AuthKeyOf("c1", conn["c1"]) # AuthKeyOf("c2", conn["c2"])
  /\ AuthKeyOf("c1", conn["c1"]) # AuthKeyOf("g1", conn["g1"])
  /\ conn["c1"].proto.server_nonce # conn["c2"].proto.server_nonce

\* C10: a message that is no handshake message, received before the session
\* is established, is dropped: nothing is sent, nothing is dispatched and the
\* consumer is what it was.
Inv_C10 ==
  (last.op = "receive" /\ ~last.hs /\ ~Established(last.conn, last.pre))
    => /\ last.sent = << >>
       /\ last.dispatched = "None"
       /\ ~last.closed
       /\ conn[last.conn] = last.pre

\* C10's case: a JSON object of another type arrived on a call socket that
\* was awaiting the client's public value
Wit_C10 ==
  /\ last.op = "receive" /\ last.msg = "json_other" /\ ~last.hs
  /\ PreSession.stage = "AWAITING_CLIENT_PUBLIC"
  /\ last.sent = << >>

\* what a well-formed set_client_dh_params does on the consumer self when
\* the server draws server_priv
WellFormedSet(self, server_priv) ==
  call_receive(self,
               JsonMsg("set_ok", "set_client_dh_params", ClientNonce,
                       self.proto.server_nonce, format_hex(ClientPub)),
               Repeat(33, 16), server_priv)

\* C11: a set_client_dh_params whose 'gb' is missing or is no hex integer is
\* answered with one message of type error, the connection stays open, the
\* consumer (auth_key and stage included) is what it was, and a well-formed
\* set_client_dh_params sent next is answered with dh_gen_ok and establishes
\* the session.
Inv_C11 ==
  (/\ last.op = "receive"
   /\ last.conn \in CallConns
   /\ last.msg \in {"set_no_gb", "set_bad_gb"})
    => /\ Len(last.sent) = 1
       /\ last.sent[1].type = "error"
       /\ ~last.closed
       /\ last.dispatched = "None"
       /\ conn[last.conn] = last.pre
       /\ \A server_priv \in ServerPrivs :
            /\ WellFormedSet(conn[last.conn], server_priv).sent[1].type = "dh_gen_ok"
            /\ Established(last.conn, WellFormedSet(conn[last.conn], server_priv).self)

\* C11's case: a set_client_dh_params with an undecodable 'gb' arrived on a
\* call socket that was awaiting the client's public value, and was answered
\* with an error
Wit_C11 ==
  /\ last.op = "receive" /\ last.msg = "set_bad_gb" /\ last.conn = "c1"
  /\ PreSession.stage = "AWAITING_CLIENT_PUBLIC"
  /\ PostSession.stage = "AWAITING_CLIENT_PUBLIC"
  /\ Falsy(PostSession.auth_key)
  /\ last.sent[1].type = "error"

\* C12: unwrap_message of an established session, given any wire input,
\* returns (a payload or the failure value None) and raises nothing.
Claim_C12 ==
  last.op \in {"decode", "decode_text"} => last.out.unwrap.exc = "none"

\* C13: when an established session receives a malformed frame (too short,
\* a ciphertext of inconsistent length, undecryptable noise), no application
\* event is dispatched, nothing is closed, and the session is afterwards
\* what it was before (same auth_key, still established, connection open),
\* so that a later valid frame is handled as it would have been.
Claim_C13 ==
  (last.op = "receive" /\ Established(last.conn, last.pre)
     /\ last.msg \in MalformedLabels)
    => /\ last.dispatched = "None"
       /\ ~last.closed
       /\ conn[last.conn] = last.pre
       /\ conn[last.conn].open

\* the part of C13 about call sockets alone
Call_C13 == last.conn \in CallConns => Claim_C13

\* what the block loop of aes_ige_decrypt makes of the input of the last
\* call, before any padding is removed
DecryptedBlocks ==
  ige_decrypt_loop(last.input, last.key, 0,
                   Slice(last.iv, 0, block_size), SliceFrom(last.iv, block_size))

\* C14: aes_ige_decrypt of a buffer whose last decrypted byte, read as the
\* pad length, is 0 or greater than 16 fails explicitly; it does not return
\* a plaintext as a successful result.
Claim_C14 ==
  (/\ last.op \in {"ige_decrypt_chosen", "ige_decrypt_buffer"}
   /\ DecryptedBlocks.exc = "none"
   /\ Len(DecryptedBlocks.data) > 0
   /\ LET pad_len == DecryptedBlocks.data[Len(DecryptedBlocks.data)]
      IN  pad_len = 0 \/ pad_len > block_size)
    => last.out.exc # "none"

\* the failure value of unwrap_message: None returned, nothing raised
UnwrapFailed(r) == r.exc = "none" /\ r.value = "None"

\* C15: decoding a wire frame of fewer than 24 bytes (0..23) fails in every
\* decode path: OdnixPacket.from_bytes raises ValueError and yields no
\* field, unwrap_message returns None without raising (so nothing was read
\* past the input), and the gateway's receive drops the frame.
Inv_C15 ==
  /\ (last.op = "decode" /\ Len(last.input) < 24)
       => /\ last.out.from_bytes.exc = "ValueError"
          /\ last.out.from_bytes.auth_key_id = << >>
          /\ last.out.from_bytes.msg_key = << >>
          /\ last.out.from_bytes.encrypted_data = << >>
          /\ UnwrapFailed(last.out.unwrap)
          /\ last.out.gw.dispatched = "None"
          /\ last.out.gw.sent = << >>
          /\ ~last.out.gw.closed
          /\ last.out.gw.self = CodecGateway
  /\ (last.op = "decode_text" /\ b64decode(last.input).exc = "none"
        /\ Len(b64decode(last.input).data) < 24)
       => UnwrapFailed(last.out.unwrap)

\* a frame of 23 bytes was decoded by from_bytes and by unwrap_message
Wit_C15 ==
  /\ last.op = "decode"
  /\ Len(last.input) = 23
  /\ last.out.from_bytes.exc = "ValueError"
  /\ UnwrapFailed(last.out.unwrap)

\* C16: for every byte string X (the empty one and those ending in a byte
\* 1..16 included), every key and every 32-byte IV,
\* aes_ige_decrypt(aes_ige_encrypt(X, key, iv), key, iv) = X, nothing raised.
Inv_C16 ==
  last.op = "ige_decrypt"
    => /\ last.input = aes_ige_encrypt(last.orig, last.key, last.iv)
       /\ last.out = [exc |-> "none", data |-> last.orig]

\* a whole block of bytes 16, which reads as a padding, made the round trip
Wit_C16 ==
  /\ last.op = "ige_decrypt"
  /\ last.orig = Repeat(16, 16)
  /\ Len(last.input) = 32
  /\ last.out.data = Repeat(16, 16)

\* the empty string made the round trip
Wit_C16_empty ==
  /\ last.op = "ige_decrypt"
  /\ last.orig = << >>
  /\ Len(last.input) = 16
  /\ last.out = [exc |-> "none", data |-> << >>]

\* the i-th 16-byte block of s, counted from 1
Blk(s, i) == Slice(s, (i - 1) * block_size, i * block_size)

\* C_i and P_i of a ciphertext C and a plaintext P under iv: C_0 is the
\* first 16 bytes of the IV, P_0 the last 16
IgeC(C, iv, i) == IF i = 0 THEN Slice(iv, 0, block_size) ELSE Blk(C, i)

IgeP(P, iv, i) == IF i = 0 THEN SliceFrom(iv, block_size) ELSE Blk(P, i)

\* the chaining relations of IGE between a padded plaintext P and a
\* ciphertext C, block by block
IgeRelations(P, C, key, iv) ==
  /\ Len(P) = Len(C)
  /\ Len(P) % block_size = 0
  /\ \A i \in 1..(Len(P) \div block_size) :
       /\ Blk(C, i) = XorBlock(AesEncBlock(key, XorBlock(Blk(P, i), IgeC(C, iv, i - 1))),
                               IgeP(P, iv, i - 1))
       /\ Blk(P, i) = XorBlock(AesDecBlock(key, XorBlock(Blk(C, i), IgeP(P, iv, i - 1))),
                               IgeC(C, iv, i - 1))

\* C17: aes_ige_encrypt and aes_ige_decrypt compute, block by block,
\* C_i = ENC(P_i XOR C_{i-1}) XOR P_{i-1} and
\* P_i = DEC(C_i XOR P_{i-1}) XOR C_{i-1}, seeded with C_0 = iv[:16] and
\* P_0 = iv[16:]; the halves of the IV have the same role in both.
Inv_C17 ==
  /\ last.op = "ige_encrypt"
       => IgeRelations(pkcs7_pad(last.input), last.out, last.key, last.iv)
  /\ last.op = "ige_decrypt"
       => /\ IgeRelations(pkcs7_pad(last.orig), last.input, last.key, last.iv)
          /\ DecryptedBlocks = [exc |-> "none", data |-> pkcs7_pad(last.orig)]
          /\ last.out = ige_unpad(pkcs7_pad(last.orig))
  /\ last.op = "ige_decrypt_chosen"
       => /\ IgeRelations(last.orig, last.input, last.key, last.iv)
          /\ DecryptedBlocks = [exc |-> "none", data |-> last.orig]
          /\ last.out = ige_unpad(last.orig)
  /\ (last.op = "ige_decrypt_buffer" /\ Len(last.input) % block_size = 0)
       => /\ DecryptedBlocks.exc = "none"
          /\ IgeRelations(DecryptedBlocks.data, last.input, last.key, last.iv)
          /\ Len(last.input) > 0 => last.out = ige_unpad(DecryptedBlocks.data)

\* three blocks were encrypted and decrypted under an IV whose halves differ
Wit_C17 ==
  /\ last.op = "ige_decrypt"
  /\ Len(last.input) = 3 * block_size
  /\ Slice(last.iv, 0, block_size) # SliceFrom(last.iv, block_size)
  /\ Blk(last.input, 3) # Blk(last.input, 2)
  /\ last.out.exc = "none"

\* the inner plaintext wrap_message builds for payload p at clock reading
\* now: salt, session_id, the time as 8 bytes, the JSON text
InnerData(proto, p, now) ==
  proto.salt \o proto.session_id \o write_long(now) \o json_dumps(p)

\* Whether the frame text is the wrapping of inner under auth_key: its
\* message key is the first 16 bytes of sha256(auth_key + inner), and its
\* ciphertext is inner encrypted with key sha256(msg_key + auth_key) and IV
\* sha256(auth_key + msg_key), and decrypts back to inner
FrameOf(auth_key, inner, text) ==
  LET dec == b64decode(text)
      msg_key == Slice(dec.data, 8, 24)
      encrypted_data == SliceFrom(dec.data, 24)
      cipher_key == sha256(msg_key \o auth_key)
      iv == sha256(auth_key \o msg_key)
  IN  /\ dec.exc = "none"
      /\ Len(dec.data) >= MinPacketLen
      /\ msg_key = Slice(sha256(auth_key \o inner), 0, 16)
      /\ Len(iv) = 32
      /\ encrypted_data = aes_ige_encrypt(inner, cipher_key, iv)
      /\ aes_ige_decrypt(encrypted_data, cipher_key, iv) = [exc |-> "none", data |-> inner]

\* C18: every frame wrap_message emits carries
\* message_key = sha256(auth_key + inner)[0:16], taken over the inner
\* plaintext that is encrypted in that frame (salt, session_id, time,
\* payload), and its ciphertext is made with
\* cipher_key = sha256(message_key + auth_key) and
\* iv = sha256(auth_key + message_key).
Inv_C18 ==
  (last.op = "wrap" /\ last.ret.exc = "none")
    => \E now \in Clock :
         FrameOf(last.pre.proto.auth_key, InnerData(last.pre.proto, last.msg, now),
                 last.ret.text)

\* an established session has wrapped the offer, and the frame carries the
\* key of its own plaintext
Wit_C18 ==
  /\ last.op = "wrap"
  /\ last.ret.exc = "none"
  /\ last.msg = "offer"
  /\ last.pre.handshake_complete
  /\ FrameOf(last.pre.proto.auth_key,
             InnerData(last.pre.proto, "offer", 1700000001), last.ret.text)

\* C19: both decryption paths, unwrap_message and the gateway's
\* decrypt_binary_payload, derive from (auth_key, message key) the cipher
\* key and the 32-byte IV that wrap_message derives and decrypt in IGE mode;
\* so a frame wrapped under auth_key K yields the same payload on either
\* path holding K: unwrap_message returns it and the gateway dispatches it.
Claim_C19 ==
  (/\ last.op = "receive"
   /\ last.conn \in GwConns
   /\ Established(last.conn, last.pre)
   /\ last.msg \in {"ping", "offer"}
   /\ last.input = PeerPacket(last.pre.proto, last.msg, 1700000000))
    => /\ unwrap_message(Peer(last.pre.auth_key), b64encode(last.input))
            = [exc |-> "none", value |-> last.msg]
       /\ last.dispatched = last.msg
       /\ ~last.closed

\* the part of C19 about unwrap_message alone
Unwrap_C19 ==
  (/\ last.op = "receive"
   /\ last.conn \in GwConns
   /\ Established(last.conn, last.pre)
   /\ last.msg \in {"ping", "offer"})
    => unwrap_message(Peer(last.pre.auth_key), b64encode(last.input))
         = [exc |-> "none", value |-> last.msg]

\* the number of bytes aes_ige_encrypt appended to the inner plaintext of
\* the frame text that wraps payload p
PaddingInserted(text, p) ==
  Len(SliceFrom(b64decode(text).data, 24)) - (InnerHeaderLen + Len(json_dumps(p)))

\* C20: for every payload, the inner plaintext wrap_message builds is padded
\* before encryption to a multiple of 16 bytes, and the padding inserted is
\* at least 12 bytes.
Claim_C20 ==
  (last.op = "wrap" /\ last.ret.exc = "none")
    => /\ Len(SliceFrom(b64decode(last.ret.text).data, 24)) % block_size = 0
       /\ PaddingInserted(last.ret.text, last.msg) >= 12

\* the part of C20 that holds: the length is a multiple of 16 and the
\* padding is 1..16 bytes
Pad_C20 ==
  (last.op = "wrap" /\ last.ret.exc = "none")
    => /\ Len(SliceFrom(b64decode(last.ret.text).data, 24)) % block_size = 0
       /\ PaddingInserted(last.ret.text, last.msg) \in 1..block_size

Gw_C21 == last.op = "decode" => last.out.gw.dispatched = "None"

\* C22: for every 8-byte auth_key_id, 16-byte message key and ciphertext of
\* any length N, OdnixPacket.to_bytes is the three fields one after the
\* other, 24 + N bytes, and OdnixPacket.from_bytes of it returns the same
\* three fields.
Inv_C22 ==
  last.op = "packet"
    => /\ Len(Slice(last.key, 0, 8)) = 8
       /\ Len(Slice(last.iv, 0, 16)) = 16
       /\ last.out.to_bytes = Slice(last.key, 0, 8) \o Slice(last.iv, 0, 16) \o last.orig
       /\ Len(last.out.to_bytes) = 24 + Len(last.orig)
       /\ last.out.from_bytes = [exc |-> "none",
                                 auth_key_id |-> Slice(last.key, 0, 8),
                                 msg_key |-> Slice(last.iv, 0, 16),
                                 encrypted_data |-> last.orig]

\* a packet with a ciphertext of 17 bytes was encoded and decoded, and its
\* id differs from the start of its message key
Wit_C22 ==
  /\ last.op = "packet"
  /\ Len(last.orig) = 17
  /\ Len(last.out.to_bytes) = 41
  /\ Slice(last.key, 0, 8) # Slice(last.iv, 0, 8)
  /\ last.out.from_bytes.encrypted_data = last.orig

\* a packet with an empty ciphertext was encoded and decoded
Wit_C22_empty ==
  /\ last.op = "packet"
  /\ last.orig = << >>
  /\ Len(last.out.to_bytes) = 24
  /\ last.out.from_bytes.exc = "none"

\* the set_client_dh_params with label l that a client of session self sends
SetMsg(l, self) ==
  CHOOSE m \in CallPlainMsgs(self) \cup CallForeignMsgs : m.label = l

\* C23: the nonces bind request and response: the server completes the
\* handshake for a set_client_dh_params only if a res_dh_params was issued on
\* the session and the message's server_nonce and nonce are those of it; a
\* set_client_dh_params with a stale, foreign or absent server_nonce does
\* not establish the session.
Claim_C23 ==
  (/\ last.op = "receive"
   /\ last.conn \in CallConns
   /\ last.msg \in {"set_ok", "set_foreign"}
   /\ Len(last.sent) = 1
   /\ last.sent[1].type = "dh_gen_ok")
    => /\ last.pre.proto.server_nonce # None
       /\ SetMsg(last.msg, last.pre).server_nonce = last.pre.proto.server_nonce
       /\ SetMsg(last.msg, last.pre).nonce = ClientNonce

\* the same with the foreign message alone: it is never answered dh_gen_ok
Foreign_C23 ==
  (last.op = "receive" /\ last.msg = "set_foreign")
    => ~(Len(last.sent) = 1 /\ last.sent[1].type = "dh_gen_ok")

\* While the client has not read dh_gen_ok the session is not established,
\* holds no key, and wrap_message and unwrap_message fail
NotYetEstablished ==
  client["c1"].stage # "done"
    => /\ ~Established("c1", conn["c1"])
       /\ Falsy(conn["c1"].proto.auth_key)
       /\ wrap_message(conn["c1"].proto, "ping", 1700000000).exc = "NoAuthKey"
       /\ unwrap_message(conn["c1"].proto, PeerFrame(conn["c1"].proto, "ping", 1700000000))
            = [exc |-> "NoAuthKey", value |-> "None"]
       /\ last.op = "wrap" => last.ret.exc = "NoAuthKey"
       /\ last.op = "receive" /\ last.msg = "ping" => last.dispatched = "None"

\* A step sends at most one reply; a reply is res_dh_params, read by the
\* client that has sent req_dh_params, or dh_gen_ok, read by the client that
\* has sent set_client_dh_params, and dh_gen_ok comes with the session
\* established; a step without a reply changes no session
ReplyStep ==
  /\ Len(last'.sent) <= 1
  /\ Len(last'.sent) = 0 => conn' = conn /\ client' = client
  /\ Len(last'.sent) = 1
       => \/ /\ client["c1"].stage = "idle"
             /\ client'["c1"].stage = "got_res"
             /\ last'.sent[1].type = "res_dh_params"
             /\ ~Established("c1", conn'["c1"])
          \/ /\ client["c1"].stage = "got_res"
             /\ client'["c1"].stage = "done"
             /\ last'.sent[1].type = "dh_gen_ok"
             /\ Established("c1", conn'["c1"])

\* C24: when req_dh_params and then a well-formed set_client_dh_params are
\* delivered and the server handles every delivered message, the session
\* eventually is established, after exactly two replies of the server,
\* res_dh_params and then dh_gen_ok; and as long as no well-formed client
\* public value has been handled the session is not established and
\* wrap_message and unwrap_message fail.
Thm_C24 ==
  /\ [](NotYetEstablished)
  /\ [][ReplyStep]_vars
  /\ <>[](Established("c1", conn["c1"]) /\ client["c1"].stage = "done")

\* the session is established after the two replies and wrap_message, which
\* failed before, now returns a frame
Wit_C24 ==
  /\ client["c1"].stage = "done"
  /\ Established("c1", conn["c1"])
  /\ last.op = "wrap"
  /\ last.ret.exc = "none"
  /\ MsgKeyMatches(conn["c1"].proto, last.ret.text)

\* the requests that consumed the message: answered success, or returned
\* the time and sent message_consumed
Consumers == {r \in Requests : request[r].pc = "done" /\ request[r].success}

\* C25: a one-time message is consumed at most once: the first consume
\* succeeds and sets consumed_at, every later or concurrent consume of the
\* same message, through the HTTP view or the message.consume event, fails
\* and leaves consumed_at as it is; so at most one consume succeeds and at
\* most one message_consumed is sent per message.
Claim_C25 ==
  /\ Cardinality(Consumers) <= 1
  /\ Cardinality({r \in Requests : request[r].event}) <= 1
  /\ \A r \in Consumers : message.consumed_at = request[r].consumed_at

\* the part of C25 that holds: a consume that starts after another has
\* saved fails, and a consume that succeeded has set consumed_at
Later_C25 ==
  /\ \A r \in Consumers : message.consumed_at # Null /\ request[r].row.consumed_at # Null
  /\ \A r \in Requests :
       (request[r].pc = "done" /\ ~request[r].success)
         => message.consumed_at # Null /\ request[r].consumed_at = Null

\* C26: req_dh_params on a call socket is answered with one res_dh_params
\* that carries the client nonce received, the server_nonce now stored on
\* the session, p and g; no field of the session other than server_nonce
\* changes: auth_key and the handshake-complete flag are what they were.
Inv_C26 ==
  (last.op = "receive" /\ last.conn \in CallConns /\ last.msg = "req")
    => /\ Len(last.sent) = 1
       /\ last.sent[1].type = "res_dh_params"
       /\ last.sent[1].nonce = ClientNonce
       /\ last.sent[1].server_nonce = conn[last.conn].proto.server_nonce
       /\ last.sent[1].server_nonce \in ServerNonces
       /\ last.sent[1].p = DH_PRIME
       /\ last.sent[1].g = DH_G
       /\ last.dispatched = "None"
       /\ ~last.closed
       /\ conn[last.conn]
            = [last.pre EXCEPT !.proto.server_nonce = last.sent[1].server_nonce]
       /\ conn[last.conn].proto.auth_key = last.pre.proto.auth_key
       /\ conn[last.conn].handshake_complete = last.pre.handshake_complete

\* an established session was sent req_dh_params again: it got a new
\* server_nonce and kept its key
Wit_C26 ==
  /\ last.op = "receive" /\ last.conn = "c1" /\ last.msg = "req"
  /\ last.pre.handshake_complete
  /\ ~Falsy(last.pre.proto.auth_key)
  /\ last.pre.proto.server_nonce # conn["c1"].proto.server_nonce
  /\ conn["c1"].proto.auth_key = last.pre.proto.auth_key
  /\ last.sent[1].type = "res_dh_params"

\* the keys a call socket can derive from the client public value of the
\* model: sha256 of the bytes of the DH shared secret
DhKeys ==
  {sha256(long_to_bytes(pow(ClientPub, server_priv, DH_PRIME))) : server_priv \in ServerPrivs}

FromItself ==
  IF last.op = "send_signal" THEN last.input = last.conn
  ELSE last.input = UserOf(last.conn)

\* C28: the call socket sends no signaling payload in plaintext: send_signal
\* and send_encrypted transmit only what wrap_message returned, only on a
\* connection whose handshake is complete (and then auth_key is present),
\* never to the connection the signal came from, and nothing at all on a
\* connection whose handshake is not complete.
Inv_C28 ==
  /\ \A c \in CallConns : conn[c].handshake_complete => ~Falsy(conn[c].proto.auth_key)
  /\ last.op \in {"send_signal", "signal_forward"}
       => /\ conn[last.conn] = last.pre
          /\ last.dispatched = "None"
          /\ ~last.closed
          /\ Len(last.sent) <= 1
          /\ ~last.pre.handshake_complete => last.sent = << >>
          /\ FromItself => last.sent = << >>
          /\ (last.pre.handshake_complete /\ ~FromItself) => Len(last.sent) = 1
          /\ Len(last.sent) = 1
               => /\ last.pre.handshake_complete
                  /\ ~Falsy(last.pre.proto.auth_key)
                  /\ last.sent[1].type = "text"
                  /\ last.sent[1].bytes
                       = wrap_message(last.pre.proto, last.msg, 1700000000).text
                  /\ FrameOf(last.pre.proto.auth_key,
                             InnerData(last.pre.proto, last.msg, 1700000000),
                             last.sent[1].bytes)
                  /\ last.sent[1].bytes # json_dumps(last.msg)

\* the offer of c1 was delivered to the established c2 and left it as a
\* frame, while c1 had not completed its handshake
Wit_C28 ==
  /\ last.op = "send_signal" /\ last.conn = "c2" /\ last.input = "c1"
  /\ last.msg = "offer"
  /\ last.pre.handshake_complete
  /\ ~conn["c1"].handshake_complete
  /\ Len(last.sent) = 1
  /\ MsgKeyMatches(last.pre.proto, last.sent[1].bytes)

\* a signal was delivered to a connection whose handshake is not complete
\* and nothing was sent
Wit_C28_incomplete ==
  /\ last.op = "send_signal" /\ last.conn = "c2" /\ last.input = "c1"
  /\ ~last.pre.handshake_complete
  /\ last.sent = << >>

\* C29: for every body length, OdnixPayload.to_bytes is the header
\* (8 + 8 + 8 + 4 + 4 bytes), the body and a padding; the total length is a
\* multiple of 16, the padding is 12 to 27 bytes, and the 32-bit length
\* field holds the length of the body.
Inv_C29 ==
  last.op = "payload"
    => /\ Len(last.out) % 16 = 0
       /\ Len(last.out) - (32 + Len(last.orig)) \in 12..27
       /\ Slice(last.out, 0, 8) = Slice(last.key, 0, 8)
       /\ Slice(last.out, 8, 16) = Slice(last.key, 8, 16)
       /\ Slice(last.out, 16, 24) = write_long(1700000000)
       /\ Slice(last.out, 24, 28) = <<3, 0, 0, 0>>
       /\ unpack_uint32(Slice(last.out, 28, 32)) = [exc |-> "none", value |-> Len(last.orig)]
       /\ Slice(last.out, 32, 32 + Len(last.orig)) = last.orig

\* a body of 5 bytes, for which 16 - (37 % 16) = 11 is raised to 27, and a
\* body of 4 bytes, for which the padding is 12
Wit_C29 ==
  /\ last.op = "payload"
  /\ Len(last.orig) = 5
  /\ Len(last.out) = 64

Wit_C29_min ==
  /\ last.op = "payload"
  /\ Len(last.orig) = 4
  /\ Len(last.out) = 48

\* The frame with the eight bytes of auth_key_id replaced by zeros
ZeroedKeyId(b64_packet) ==
  b64encode(Repeat(0, 8) \o SliceFrom(b64decode(b64_packet).data, 8))

\* A call of unwrap_message leaves the consumer, and with it auth_key, salt,
\* session_id and server_nonce of the session, as it was; the same frame
\* given again returns what it returned; a frame the peer made with its own
\* salt and session_id at either time is accepted, and so is the same frame
\* under another auth_key_id
Stateless_C30 ==
  last.op = "unwrap"
    => /\ conn[last.conn] = last.pre
       /\ unwrap_message(conn[last.conn].proto, last.input)
            = [exc |-> last.ret.exc, value |-> last.ret.value]
       /\ (last.msg \in Payloads /\ ~Falsy(last.pre.proto.auth_key))
            => /\ last.ret.value = last.msg
               /\ last.input \in {PeerFrame(last.pre.proto, last.msg, now) : now \in Clock}
               /\ Peer(last.pre.proto.auth_key).salt # last.pre.proto.salt
               /\ Peer(last.pre.proto.auth_key).session_id # last.pre.proto.session_id
               /\ ZeroedKeyId(last.input) # last.input
               /\ unwrap_message(last.pre.proto, ZeroedKeyId(last.input)).value = last.msg

\* Two calls of unwrap_message in a row on one session: the session is not
\* assigned to, a frame given twice returns the same, and a frame of either
\* time is accepted after a frame of the other time
Replay_C30 ==
  (last.op = "unwrap" /\ last'.op = "unwrap" /\ last'.conn = last.conn)
    => /\ conn' = conn
       /\ last'.pre = last.pre
       /\ (last'.input = last.input => last'.ret = last.ret)
       /\ (last'.msg \in Payloads /\ ~Falsy(last'.pre.proto.auth_key))
            => last'.ret.value = last'.msg

\* C30: unwrap_message does not modify auth_key, salt, session_id or
\* server_nonce and does not check the frame's salt, session id, timestamp or
\* auth_key_id, so a frame unwrapped again, in any order with other frames,
\* returns the same result each time.
Thm_C30 == []Stateless_C30 /\ [][Replay_C30]_vars

\* the established session unwrapped the peer's frame of the earlier time,
\* which carries the peer's salt and session_id
Wit_C30 ==
  /\ last.op = "unwrap"
  /\ last.msg = "ping"
  /\ ~Falsy(last.pre.proto.auth_key)
  /\ last.input = PeerFrame(last.pre.proto, "ping", 1700000000)
  /\ last.ret.value = "ping"
  /\ conn[last.conn] = last.pre

====
